---- MODULE Spec2Model ----
(***************************************************************************)
(* Verification model of the finance QA system: the iterative answering    *)
(* loop (app/services/qa_loop.py with its callers in app/api/server.py),   *)
(* the event logger (app/services/event_logger.py) and the persistent      *)
(* vector store (app/stores/vector_base.py).                               *)
(*                                                                         *)
(* Two specifications share the module: SpecQA runs one question through   *)
(* the loop; SpecStore drives one SimpleVectorStore through add,           *)
(* delete_by_file, flush and re-construction on the same path.             *)
(***************************************************************************)
EXTENDS Integers, Sequences, FiniteSets, TLC

VARIABLES
    \* ---- one question: QALoop.run / run_with_events and its caller ----
    pc,                 \* position of the run
    mode,               \* "ask" | "ask_async" | "run_with_events"
    max_loops,          \* settings.iterative_max_loops
    backend,            \* store behind the loop: "langchain" | "main"
    user_query,
    current_query,
    loop_idx,
    reform_json,        \* the round's model responses (locals of the loop)
    reformulated,
    docs,
    sel_json,
    chosen_ids,
    retrieved_chunks,   \* what store.retrieve_chunks returned, before the filter
    retrieved_tables,
    chunks,
    tables,
    filter_json,
    answerable,
    accumulated_chunks, \* map id -> record
    steps,              \* trace['steps']
    final_answer,       \* trace['final_answer'], Absent while the key is missing
    final_calls,        \* number of final_answer model calls made
    trace_file,         \* the persisted trace, Absent while no file exists
    logger,             \* the job's EventLogger: [buffer, file]
    error,              \* the exception that ended the run, "none" otherwise
    \* ---- one SimpleVectorStore and its directory ----
    vectors,            \* self.vectors
    id_index,           \* self._id_index (0-based positions)
    dirty,              \* self._dirty
    disk,               \* meta.json + vectors.npz, NoFile before the first persist
    last_op,            \* the last store operation, its arguments and pre-state
    raised,             \* the exception the last store call raised, "none" otherwise
    \* ---- one HybridIndex over the store's records ----
    idx_records,        \* HybridIndex.records
    bm25,               \* self.bm25: NoBM25 or the index built over a corpus
    hits,               \* what the last search returned: <<[rec, score], ...>>
    last_search,        \* the last search call and its arguments
    \* ---- a search running while another thread ingests or deletes ----
    aliased,            \* HybridIndex.records is the store's list object itself
    wpc,                \* where the ingesting / deleting thread is
    rpc,                \* where the thread inside hybrid_search is
    seen_bm25,          \* the bm25 that hybrid_search scored with
    seen_records,       \* the record list that hybrid_search scored
    \* ---- one job writing its event stream ----
    emitted,            \* every event the job handed to its logger, in order
    jpc,                \* where the job is
    \* ---- one Chunker._fixed generator ----
    text_n,             \* n = len(text); the text is its positions 1..n
    chunk_size,         \* self.chunk_size
    overlap,            \* self.overlap
    start,              \* start
    yielded,            \* the TextChunks yielded so far
    cpc,                \* where the generator is
    \* ---- MainStore.scan_folder and its callers ----
    scan_stores,        \* summary_store, chunk_store, table_store: vectors and _id_index
    scan_dirty,         \* their _dirty flags
    scan_disk,          \* the vectors each store last persisted
    scan_bm25,          \* self.bm25 of _hybrid_docs, _hybrid_chunks, _hybrid_tables
    scan_records,       \* self.records of the three indices: the list and whether
                        \* it is the store's own list object
    _ingested,          \* self._ingested
    caller,             \* who called scan_folder
    scan_logger,        \* whether a logger was passed
    force,              \* the force argument
    pdfs,               \* pdfs, as listed
    scan_i,             \* position of the loop in pdfs
    ingested,           \* the local list ingested
    signals,            \* events and log entries written during the call
    caught,             \* exceptions caught during the call
    attempts,           \* history: the state around each load_pdf_streaming
    nscans,             \* calls of scan_folder so far
    spc,                \* where the call is
    main_op,            \* the last load_pdf, load_pdf_streaming or delete_file call
    strategy,           \* Chunker.strategy
    max_chunk_size,     \* Chunker.max_chunk_size
    source_text,        \* the text given to Chunker.chunk, a sequence of characters
    pending,            \* sentence groups _recursive has not looked at yet
    produced,           \* the chunks of Chunker.chunk so far
    kpc                 \* where the call of Chunker.chunk is

\* the answering loop's state without its logger
qaNoLogger == <<pc, mode, max_loops, backend, user_query, current_query, loop_idx,
                reform_json, reformulated, docs, sel_json, chosen_ids,
                retrieved_chunks, retrieved_tables, chunks, tables, filter_json,
                answerable, accumulated_chunks, steps, final_answer, final_calls,
                trace_file, error>>

qaVars == <<pc, mode, max_loops, backend, user_query, current_query, loop_idx,
            reform_json, reformulated, docs, sel_json, chosen_ids,
            retrieved_chunks, retrieved_tables, chunks, tables, filter_json,
            answerable, accumulated_chunks, steps, final_answer, final_calls,
            trace_file, logger, error>>

storeVars == <<vectors, id_index, dirty, disk, last_op>>

hybridVars == <<idx_records, bm25, hits, last_search>>

concVars == <<aliased, wpc, rpc, seen_bm25, seen_records>>

eventVars == <<emitted, jpc>>

chunkVars == <<text_n, chunk_size, overlap, start, yielded, cpc>>

groupVars == <<strategy, max_chunk_size, source_text, pending, produced, kpc>>

scanCorpora == <<scan_stores, scan_dirty, scan_disk, scan_bm25, scan_records>>
scanVars == <<scanCorpora, _ingested, caller, scan_logger, force, pdfs, scan_i,
              ingested, signals, caught, attempts, nscans, spc>>

\* the state of the other components
restVars == <<hybridVars, concVars, eventVars, chunkVars, scanVars, main_op,
    groupVars>>
\* what the sequential use of the index leaves alone
hybridRest == <<concVars, eventVars, chunkVars, scanVars, main_op,
    groupVars>>
\* what a search during ingestion leaves alone
concRest == <<eventVars, chunkVars, scanVars, main_op,
    groupVars>>
\* what a job's event stream leaves alone
eventRest == <<storeVars, raised, hybridVars, concVars, chunkVars, scanVars, main_op,
    groupVars>>
\* what the chunker leaves alone
chunkRest == <<qaVars, storeVars, raised, hybridVars, concVars, eventVars, scanVars, main_op,
    groupVars>>
\* what Chunker.chunk leaves alone
strategyRest == <<qaVars, storeVars, raised, hybridVars, concVars, eventVars, scanVars, main_op>>
\* what a scan leaves alone
scanRest == <<qaVars, storeVars, raised, hybridVars, concVars, eventVars, chunkVars, main_op,
    groupVars>>
\* what a direct call of load_pdf, load_pdf_streaming or delete_file leaves alone
mainRest == <<qaVars, storeVars, raised, hybridVars, concVars, eventVars, chunkVars,
              _ingested, caller, scan_logger, force, pdfs, scan_i, ingested,
              signals, caught, attempts, nscans, spc, groupVars>>

vars == <<qaVars, storeVars, raised, restVars>>

(***************************************************************************)
(* Bounds of the model.                                                    *)
(***************************************************************************)
MaxLoops == 2           \* iterative_max_loops ranges over 0..MaxLoops
MaxBatch == 2           \* longest record list handed to one add()

(***************************************************************************)
(* Program constants.                                                      *)
(***************************************************************************)
event_buffer_flush_events == 5
rag_debug == TRUE
ChunkCap == 8           \* chunks[:8]
TableCap == 4           \* tables[:4]

Absent == "<absent>"    \* a key a dict does not hold / a file that does not exist
None == "<none>"        \* a local not yet assigned in this round

RangeOf(s) == {s[i] : i \in 1..Len(s)}

RECURSIVE SelectSeq2(_, _)
\* [x for x in s if x in keep-predicate]: list comprehension keeping order
SelectSeq2(s, keep) ==
    IF s = <<>> THEN <<>>
    ELSE IF Head(s) \in keep THEN <<Head(s)>> \o SelectSeq2(Tail(s), keep)
         ELSE SelectSeq2(Tail(s), keep)

Take(s, n) == SubSeq(s, 1, IF Len(s) < n THEN Len(s) ELSE n)

(***************************************************************************)
(* EventLogger                                                             *)
(***************************************************************************)
Evt(type, message) == [event |-> type, message |-> message]

\* faulty variant: only the newest buffered line reaches the file
_flushNewest(lg) ==
    IF lg.buffer = <<>> THEN lg
    ELSE [buffer |-> <<>>, file |-> Append(lg.file, lg.buffer[Len(lg.buffer)])]

\* with open(self.path, 'a'): write the buffered lines; self._buffer.clear()
_flush(lg) ==
    IF lg.buffer = <<>> THEN lg
    ELSE [buffer |-> <<>>, file |-> lg.file \o lg.buffer]

\* faulty variant: only the event count triggers a flush
_write_event_count_only(lg, evt) ==
    LET appended == [lg EXCEPT !.buffer = Append(lg.buffer, evt)]
    IN  IF Len(appended.buffer) >= event_buffer_flush_events
        THEN _flush(appended)
        ELSE appended

_write_event(lg, evt) ==
    LET appended == [lg EXCEPT !.buffer = Append(lg.buffer, evt)]
    IN  IF Len(appended.buffer) >= event_buffer_flush_events
           \/ evt.event \in {"error", "job_finished"}
        THEN _flush(appended)
        ELSE appended

EventLogger == _write_event([buffer |-> <<>>, file |-> <<>>], Evt("job_started", ""))

LogInfo(lg, message) == _write_event(lg, Evt("info", message))
LogProgress(lg, stage) == _write_event(lg, Evt("progress", stage))
LogError(lg, message) == _write_event(lg, Evt("error", message))
\* faulty variant: the terminal event goes straight to the file
LogDoneDirect(lg) == [lg EXCEPT !.file = Append(lg.file, Evt("job_finished", "ok"))]

LogDone(lg) == _flush(_write_event(lg, Evt("job_finished", "ok")))

NoLogger == [buffer |-> <<>>, file |-> <<>>]

\* every event handed to the logger so far, in emission order
Emitted(lg) == lg.file \o lg.buffer


(***************************************************************************)
(* OpenAIClient.chat_json: what the loop gets back from one model call.    *)
(* A reply is the message content the completion API returned (or the      *)
(* failure of the call).  Forms of content:                                *)
(*   json_object     a JSON object                                         *)
(*   wrapped_object  prose around one JSON object ("Sure: {...}")          *)
(*   json_other      valid JSON that is not an object (list, number, ...)  *)
(*   garbage_braces  braces present, but nothing parseable between them    *)
(*   garbage         no braces, not JSON                                   *)
(***************************************************************************)
Forms == {"json_object", "wrapped_object", "json_other", "garbage_braces", "garbage"}

\* json.loads(content): "object", "other" (a non-dict value) or "fail"
Loads(form) ==
    CASE form = "json_object" -> "object"
      [] form = "json_other" -> "other"
      [] OTHER -> "fail"

HasBraces(form) == form \in {"json_object", "wrapped_object", "garbage_braces"}

\* content[content.find('{'):content.rfind('}')+1]
ExtractBraces(form) == IF form = "wrapped_object" THEN "json_object" ELSE form

Parsed(form, reply) ==
    IF Loads(form) = "object"
    THEN [kind |-> "object", keys |-> reply.keys, obj |-> reply.obj]
    ELSE [kind |-> "nonobject", keys |-> {}, obj |-> reply.obj]

RawPayload(reply) == [kind |-> "raw", keys |-> {}, obj |-> reply.obj]

\* for _ in range(2): try json.loads; except: repair or return {"raw": content}
chat_json(reply) ==
    IF Loads(reply.form) # "fail" THEN Parsed(reply.form, reply)
    ELSE IF ~HasBraces(reply.form) THEN RawPayload(reply)
    ELSE LET c2 == ExtractBraces(reply.form)
         IN  IF Loads(c2) # "fail" THEN Parsed(c2, reply)
             ELSE RawPayload(reply)

\* resp.get(key, default) on a dict
Get(resp, key, default) == IF key \in resp.keys THEN resp.obj[key] ELSE default

\* .get exists on dicts only: a list, string or number raises AttributeError
IsDict(resp) == resp.kind \in {"object", "raw"}

\* the replies of one stage: the call raising, or content of each form
Replies(objs, empty) ==
    {[form |-> "raise", keys |-> {}, obj |-> empty]}
    \cup {[form |-> f, keys |-> o.keys, obj |-> o.obj] :
            f \in {"json_object", "wrapped_object"}, o \in objs}
    \cup {[form |-> f, keys |-> {}, obj |-> empty] :
            f \in {"json_other", "garbage_braces", "garbage"}}

NoResp(empty) == [kind |-> "none", keys |-> {}, obj |-> empty]

(***************************************************************************)
(* The values the model may put into its answers, and the corpus the       *)
(* retrieval port answers from.                                            *)
(***************************************************************************)
Queries == {"q0", "q1"}
Files == {"a.pdf", "b.pdf"}

\* 'doc-' + source_file ; an id is <<prefix, file>>
DocId(f) == <<"doc-", f>>
ChunkId(kind, i, f) == <<kind, i, f>>

\* metadata.get('source_file', '')
SourceFile(c) == IF c.source_file = Absent THEN "" ELSE c.source_file

Cand(kind, i, f) ==
    [id |-> ChunkId(kind, i, IF f = Absent THEN "" ELSE f), source_file |-> f]

\* candidate lists the store returns, per query text (a quiescent corpus)
ChunkHits(q) ==
    IF q = "q0"
    THEN <<Cand("chunk-", 0, "a.pdf"), Cand("chunk-", 0, "b.pdf"),
           Cand("chunk-", 1, "a.pdf"), Cand("chunk-", 1, "b.pdf"),
           Cand("chunk-", 2, "a.pdf"), Cand("chunk-", 7, Absent),
           Cand("chunk-", 3, "a.pdf"), Cand("chunk-", 2, "b.pdf"),
           Cand("chunk-", 4, "a.pdf"), Cand("chunk-", 5, "a.pdf")>>
    ELSE <<Cand("chunk-", 2, "b.pdf"), Cand("chunk-", 0, "a.pdf"),
           Cand("chunk-", 3, "b.pdf")>>

TableHits(q) ==
    IF q = "q0"
    THEN <<Cand("table-", 0, "a.pdf"), Cand("table-", 1, "a.pdf"),
           Cand("table-", 0, "b.pdf"), Cand("table-", 2, "a.pdf"),
           Cand("table-", 3, "a.pdf")>>
    ELSE <<Cand("table-", 0, "b.pdf")>>

DocHits(q) ==
    IF q = "q0"
    THEN <<[id |-> DocId("a.pdf"), source_file |-> "a.pdf"],
           [id |-> DocId("b.pdf"), source_file |-> "b.pdf"]>>
    ELSE <<[id |-> DocId("b.pdf"), source_file |-> "b.pdf"]>>

top_k_docs == 6
top_k_chunks == 12
top_k_tables == 6

\* what SelectDocs may answer: doc ids, an id without the prefix, 'doc-' alone
ChosenFamily ==
    {{}, {DocId("a.pdf")}, {DocId("b.pdf"), <<"", "a.pdf">>}, {DocId("")}}

\* what FilterChunks may answer: presented ids, an id beyond the caps, an
\* id that was never retrieved
RelFamily ==
    {{}, {ChunkId("chunk-", 0, "a.pdf"), ChunkId("table-", 0, "a.pdf")},
     {ChunkId("chunk-", 2, "b.pdf"), ChunkId("chunk-", 5, "a.pdf"),
      ChunkId("table-", 3, "a.pdf"), ChunkId("chunk-", 99, "a.pdf")}}

ReformEmpty == [reformulated |-> None]
ReformObjs ==
    {[keys |-> {"reformulated"}, obj |-> [reformulated |-> q]] : q \in Queries}
    \cup {[keys |-> {}, obj |-> ReformEmpty]}

SelectEmpty == [chosen_doc_ids |-> {}]
SelectObjs ==
    {[keys |-> {"chosen_doc_ids"}, obj |-> [chosen_doc_ids |-> s]] : s \in ChosenFamily}
    \cup {[keys |-> {}, obj |-> SelectEmpty]}

FilterEmpty == [relevant_chunk_ids |-> {}, answerable |-> FALSE, missing_info_query |-> None]
FilterObjs ==
    {o \in [keys : SUBSET {"relevant_chunk_ids", "answerable", "missing_info_query"},
            obj : [relevant_chunk_ids : RelFamily, answerable : BOOLEAN,
                   missing_info_query : Queries \cup {None}]] :
        /\ "relevant_chunk_ids" \notin o.keys => o.obj.relevant_chunk_ids = {}
        /\ "answerable" \notin o.keys => o.obj.answerable = FALSE
        /\ ("missing_info_query" \in o.keys) <=> (o.obj.missing_info_query # None)}

FinalEmpty == [answer |-> None]
FinalObjs ==
    {[keys |-> {"answer"}, obj |-> [answer |-> "ans"]], [keys |-> {}, obj |-> FinalEmpty]}


(***************************************************************************)
(* SimpleVectorStore (app/stores/vector_base.py)                           *)
(***************************************************************************)
VectorRecord(id, vector, text, metadata) ==
    [id |-> id, vector |-> vector, text |-> text, metadata |-> metadata]

\* the records callers hand to add(): r1 of a.pdf in two contents (the file
\* ingested twice), r2 of b.pdf, r3 of a.pdf
Recs ==
    {VectorRecord("r1", <<1, 0>>, "t1", [source_file |-> "a.pdf"]),
     VectorRecord("r1", <<0, 1>>, "t2", [source_file |-> "a.pdf"]),
     VectorRecord("r2", <<0, 1>>, "t1", [source_file |-> "b.pdf"]),
     VectorRecord("r3", <<1, 1>>, "t2", [source_file |-> "a.pdf"])}

RECURSIVE SeqsUpTo(_, _)
SeqsUpTo(S, n) ==
    IF n = 0 THEN {<<>>}
    ELSE LET shorter == SeqsUpTo(S, n - 1)
         IN  shorter \cup {Append(b, x) : b \in {t \in shorter : Len(t) = n - 1}, x \in S}

Batches == SeqsUpTo(Recs, MaxBatch)

\* the directory before the first _persist: neither meta.json nor vectors.npz
NoFile == [exists |-> FALSE, arr |-> [ncols |-> 0, rows |-> <<>>], meta |-> <<>>]

\* np.vstack([r.vector for r in vs]) if vs else np.zeros((0, 1))
VStack(vs) ==
    IF vs # <<>>
    THEN [ncols |-> Len(vs[1].vector), rows |-> [i \in 1..Len(vs) |-> vs[i].vector]]
    ELSE [ncols |-> 1, rows |-> <<>>]

\* meta = [{'id': r.id, 'text': r.text, 'metadata': r.metadata} for r in vs]
MetaOf(vs) ==
    [i \in 1..Len(vs) |-> [id |-> vs[i].id, text |-> vs[i].text,
                           metadata |-> vs[i].metadata]]

\* what _persist leaves in the directory
_persist(vs) == [exists |-> TRUE, arr |-> VStack(vs), meta |-> MetaOf(vs)]

\* faulty variant: every record is given the first row of the matrix
_loadFirstRow(d) ==
    [i \in 1..Len(d.meta) |->
        VectorRecord(d.meta[i].id, d.arr.rows[1], d.meta[i].text, d.meta[i].metadata)]

\* for i, m in enumerate(meta): VectorRecord(m['id'], arr[i], m['text'], m['metadata'])
_load(d) ==
    [i \in 1..Len(d.meta) |->
        VectorRecord(d.meta[i].id, d.arr.rows[i], d.meta[i].text, d.meta[i].metadata)]

\* arr[i] of a matrix with fewer rows than meta has entries: index out of bounds
LoadRaises(d) == \E i \in 1..Len(d.meta) : i > Len(d.arr.rows)

\* self._id_index[rec.id] = i for each loaded record in turn: the last position wins
LoadIndex(vs) ==
    [id \in {vs[i].id : i \in 1..Len(vs)} |->
        (CHOOSE i \in 1..Len(vs) :
            /\ vs[i].id = id
            /\ \A j \in 1..Len(vs) : vs[j].id = id => j <= i) - 1]

\* faulty variant: the positions are counted from 1
ReindexFromOne(vs) ==
    [id \in {vs[i].id : i \in 1..Len(vs)} |-> LoadIndex(vs)[id] + 1]

\* {rec.id: i for i, rec in enumerate(self.vectors)}
Reindex(vs) == LoadIndex(vs)

\* faulty variant: add() appends without looking the id up
AddOneAppend(st, rec) ==
    [vectors |-> Append(st.vectors, rec),
     id_index |-> [id \in DOMAIN st.id_index \cup {rec.id} |->
                     IF id = rec.id THEN Len(st.vectors) ELSE st.id_index[id]]]

\* one iteration of the loop of add(): replace at the indexed position or append
AddOne(st, rec) ==
    IF rec.id \in DOMAIN st.id_index
    THEN [st EXCEPT !.vectors[st.id_index[rec.id] + 1] = rec]
    ELSE [vectors |-> Append(st.vectors, rec),
          id_index |-> [id \in DOMAIN st.id_index \cup {rec.id} |->
                          IF id = rec.id THEN Len(st.vectors) ELSE st.id_index[id]]]

RECURSIVE AddAll(_, _)
AddAll(st, records) ==
    IF records = <<>> THEN st
    ELSE AddAll(AddOne(st, Head(records)), Tail(records))

\* faulty variant: the comparison of delete_by_file is inverted
KeepInverted(vs, filename) ==
    SelectSeq2(vs, {r \in RangeOf(vs) : r.metadata.source_file = filename})

\* keep = [rec for rec in self.vectors if rec.metadata.get('source_file') != filename]
Keep(vs, filename) ==
    SelectSeq2(vs, {r \in RangeOf(vs) : r.metadata.source_file # filename})

\* faulty variant: add() persists whatever its flush argument
ShouldPersistAlways(fl) == TRUE

\* if flush: self._persist() else: self._dirty = True
ShouldPersist(fl) == fl

\* flush(): if self._dirty
NeedsFlush == dirty

\* the last operation on the store, with what it was called on
Pre == [ids |-> DOMAIN id_index, dirty |-> dirty]
Op(name, records, fl, filename, persisted) ==
    [op |-> name, records |-> records, flush |-> fl, filename |-> filename,
     persisted |-> persisted, pre |-> Pre]
NoOp == [op |-> "init", records |-> <<>>, flush |-> FALSE, filename |-> "",
         persisted |-> FALSE, pre |-> [ids |-> {}, dirty |-> FALSE]]

(***************************************************************************)
(* HybridIndex (app/stores/hybrid_search.py) and SimpleVectorStore.search. *)
(* Float scores are kept as fixed-point numbers in units of 1/Scale.       *)
(***************************************************************************)
Scale == 100
MaxCorpus == 3          \* most records in a corpus
MaxTopK == 3            \* largest top_k asked for

\* re.findall(r"\w+", text), lower-cased: the texts "" and "--" hold no token
_tokenize(text) == IF text \in {"", "--"} THEN <<>> ELSE <<text>>

\* toks = self._tokenize(r.text) if r.text else []
TokensOf(rec) == IF rec.text = "" THEN <<>> ELSE _tokenize(rec.text)

\* corpus: the token lists of the records that have tokens, in record order
RECURSIVE CorpusOf(_)
CorpusOf(recs) ==
    IF recs = <<>> THEN <<>>
    ELSE IF TokensOf(Head(recs)) # <<>>
         THEN <<TokensOf(Head(recs))>> \o CorpusOf(Tail(recs))
         ELSE CorpusOf(Tail(recs))

NoBM25 == [built |-> FALSE, corpus |-> <<>>, of |-> <<>>]
\* raw: what bm25.get_scores returned to the search
NoSearch == [op |-> "none", query_vec |-> <<0, 0>>, alpha |-> 0, top_k |-> 0, raw |-> <<>>]

\* BM25Okapi(corpus) if corpus else None; "of" remembers the record list the
\* corpus was taken from
BuildBM25(recs) ==
    IF CorpusOf(recs) # <<>>
    THEN [built |-> TRUE, corpus |-> CorpusOf(recs), of |-> recs]
    ELSE NoBM25

Dot(u, v) == u[1] * v[1] + u[2] * v[2]
ISqrt(n) == CHOOSE k \in 0..(2 * Scale) : k * k <= n /\ n < (k + 1) * (k + 1)
\* square roots of the squared lengths vectors with components in -1..1 have
NormTable == [n \in 0..2 |-> ISqrt(n * Scale * Scale)]
\* np.linalg.norm(v), in units of 1/Scale
Norm(v) == NormTable[Dot(v, v)]
\* v / (norm + 1e-9): the zero vector stays zero
Unit(v) == [i \in 1..2 |-> IF Norm(v) = 0 THEN 0 ELSE (v[i] * Scale * Scale) \div Norm(v)]
\* mnorm @ q
Sims(recs, query_vec) ==
    [i \in 1..Len(recs) |-> Dot(Unit(recs[i].vector), Unit(query_vec)) \div Scale]

MinOf(sc) == CHOOSE x \in RangeOf(sc) : \A y \in RangeOf(sc) : x <= y
MaxOf(sc) == CHOOSE x \in RangeOf(sc) : \A y \in RangeOf(sc) : x >= y
\* rng = np.ptp(s); if rng > 0: s = (s - s.min()) / (rng + 1e-9)
MinMax(sc) ==
    IF sc = <<>> THEN sc
    ELSE LET rng == MaxOf(sc) - MinOf(sc)
         IN  IF rng > 0
             THEN [i \in 1..Len(sc) |-> ((sc[i] - MinOf(sc)) * Scale) \div rng]
             ELSE sc

\* lexical_scores: empty when there are no records or no bm25, else the
\* normalised scores bm25.get_scores gave (raw: one per corpus entry)
lexical_scores(recs, bm, raw) ==
    IF recs = <<>> \/ ~bm.built THEN <<>> ELSE MinMax(raw)

\* dense_scores: normalised cosine similarities, one per record
dense_scores(recs, query_vec) ==
    IF recs = <<>> THEN <<>> ELSE MinMax(Sims(recs, query_vec))

\* faulty variant: no fall-back, missing lexical scores count as zero
HybridScoreNoFallback(ls, ds, alpha) ==
    [i \in 1..Len(ds) |->
        (alpha * ds[i] + (Scale - alpha) * (IF i <= Len(ls) THEN ls[i] ELSE 0)) \div Scale]

\* faulty variant: alpha weighs the lexical score
HybridScoreSwapped(ls, ds, alpha) ==
    IF Len(ls) # Len(ds) \/ Len(ls) = 0
    THEN ds
    ELSE [i \in 1..Len(ds) |-> (alpha * ls[i] + (Scale - alpha) * ds[i]) \div Scale]

\* if ls.shape != ds.shape or ls.size == 0: score = ds
\* else: score = alpha * ds + (1 - alpha) * ls
HybridScore(ls, ds, alpha) ==
    IF Len(ls) # Len(ds) \/ Len(ls) = 0
    THEN ds
    ELSE [i \in 1..Len(ds) |-> (alpha * ds[i] + (Scale - alpha) * ls[i]) \div Scale]

\* faulty variant: argsort of the scores themselves, lowest first
ArgsortAscending(sc) ==
    LET before(j, i) == sc[j] < sc[i] \/ (sc[j] = sc[i] /\ j < i)
        rank(i) == Cardinality({j \in 1..Len(sc) : before(j, i)}) + 1
    IN  [k \in 1..Len(sc) |-> CHOOSE i \in 1..Len(sc) : rank(i) = k]

\* np.argsort(-score): indices by descending score (equal scores by index)
Argsort(sc) ==
    LET before(j, i) == sc[j] > sc[i] \/ (sc[j] = sc[i] /\ j < i)
        rank(i) == Cardinality({j \in 1..Len(sc) : before(j, i)}) + 1
    IN  [k \in 1..Len(sc) |-> CHOOSE i \in 1..Len(sc) : rank(i) = k]

\* s[:k] as Python slices: a negative k counts from the end
PySlice(s, k) ==
    IF k >= 0 THEN Take(s, k)
    ELSE Take(s, IF Len(s) + k > 0 THEN Len(s) + k ELSE 0)

\* [(self.records[i], float(score[i])) for i in idxs]
Ranked(recs, sc, top_k) ==
    LET idxs == PySlice(Argsort(sc), top_k)
    IN  [k \in 1..Len(idxs) |-> [rec |-> recs[idxs[k]], score |-> sc[idxs[k]]]]

\* the scores bm25.get_scores can give for a corpus of n entries
LexRaw(n) == [1..n -> {0, 3 * Scale}]

\* records of the indexed corpus: h2 and h3 have no token in their text
HRecs ==
    {VectorRecord("h1", <<1, 0>>, "t1", [source_file |-> "a.pdf"]),
     VectorRecord("h2", <<0, 1>>, "", [source_file |-> "a.pdf"]),
     VectorRecord("h3", <<1, 1>>, "--", [source_file |-> "b.pdf"]),
     VectorRecord("h4", <<-1, 1>>, "t2", [source_file |-> "b.pdf"]),
     VectorRecord("h5", <<1, 1>>, "t1", [source_file |-> "b.pdf"])}

\* corpora: record lists without a repeated id
Corpora ==
    {c \in SeqsUpTo(HRecs, MaxCorpus) :
        \A i, j \in 1..Len(c) : c[i].id = c[j].id => i = j}

QueryVecs == {<<1, 0>>, <<1, 1>>}
Alphas == {0, Scale \div 2, Scale}
TopKs == 0..MaxTopK

(***************************************************************************)
(* QALoop.run / QALoop.run_with_events, driven by server.ask,              *)
(* server.ask_async or a caller of run_with_events.                        *)
(***************************************************************************)
Modes == {"ask", "ask_async", "run_with_events"}
Backends == {"langchain", "main"}

Step(type) == [loop |-> loop_idx, type |-> type]

\* faulty variant: the range runs one iteration too far
ForRangeInclusive(i) == i <= max_loops

\* for loop_idx in range(settings.iterative_max_loops): is there an iteration i
ForRange(i) == i < max_loops

\* logger.progress(stage, ...) is called by run_with_events only
StageLog(stage) ==
    IF mode = "run_with_events" THEN LogProgress(logger, stage) ELSE logger

\* an exception leaving the loop: server.ask lets it propagate, the thread of
\* ask_async logs an error event, run_with_events has no handler of its own
AbortLog(lg) == IF mode = "ask_async" THEN LogError(lg, "qa_failed") ELSE lg

roundLocals == <<reform_json, reformulated, docs, sel_json, chosen_ids,
                 retrieved_chunks, retrieved_tables, chunks, tables,
                 filter_json, answerable>>

ClearRound ==
    /\ reform_json' = NoResp(ReformEmpty)
    /\ reformulated' = None
    /\ docs' = <<>>
    /\ sel_json' = NoResp(SelectEmpty)
    /\ chosen_ids' = {}
    /\ retrieved_chunks' = <<>>
    /\ retrieved_tables' = <<>>
    /\ chunks' = <<>>
    /\ tables' = <<>>
    /\ filter_json' = NoResp(FilterEmpty)
    /\ answerable' = FALSE

\* faulty variant: the exception is swallowed and the run goes on to persist its trace
AbortSwallowed(exc, lg) ==
    /\ pc' = "loop_exit"
    /\ error' = exc
    /\ logger' = AbortLog(lg)

\* _chat re-raises what chat_json raised; nothing in the loop catches it
Abort(exc, lg) ==
    /\ pc' = "aborted"
    /\ error' = exc
    /\ logger' = AbortLog(lg)

QAIdle ==
    /\ pc = "idle"
    /\ mode = "ask"
    /\ user_query = None
    /\ current_query = None
    /\ loop_idx = 0
    /\ reform_json = NoResp(ReformEmpty)
    /\ reformulated = None
    /\ docs = <<>>
    /\ sel_json = NoResp(SelectEmpty)
    /\ chosen_ids = {}
    /\ retrieved_chunks = <<>>
    /\ retrieved_tables = <<>>
    /\ chunks = <<>>
    /\ tables = <<>>
    /\ filter_json = NoResp(FilterEmpty)
    /\ answerable = FALSE
    /\ accumulated_chunks = <<>>
    /\ steps = <<>>
    /\ final_answer = NoResp(FinalEmpty)
    /\ final_calls = 0
    /\ trace_file = [exists |-> FALSE, steps |-> <<>>, final_answer |-> NoResp(FinalEmpty)]
    /\ logger = NoLogger
    /\ error = "none"

HybridIdle ==
    /\ idx_records = <<>>
    /\ bm25 = NoBM25
    /\ hits = <<>>
    /\ last_search = NoSearch

ConcIdle ==
    /\ aliased = TRUE
    /\ wpc = "idle"
    /\ rpc = "idle"
    /\ seen_bm25 = NoBM25
    /\ seen_records = <<>>

EventIdle ==
    /\ emitted = <<>>
    /\ jpc = "idle"

ChunkIdle ==
    /\ text_n = 0
    /\ chunk_size = 1
    /\ overlap = 0
    /\ start = 0
    /\ yielded = <<>>
    /\ cpc = "idle"

EmptyStore == [vectors |-> <<>>, id_index |-> <<>>]
StoreNames == {"summary", "chunk", "table"}

\* MainStore() on an empty persist_dir, no scan_folder called yet
ScanIdle ==
    /\ scan_stores = [k \in StoreNames |-> EmptyStore]
    /\ scan_dirty = [k \in StoreNames |-> FALSE]
    /\ scan_disk = [k \in StoreNames |-> <<>>]
    /\ scan_bm25 = [k \in StoreNames |-> BuildBM25(<<>>)]
    /\ scan_records = [k \in StoreNames |-> [alias |-> TRUE, list |-> <<>>]]
    /\ _ingested = {}
    /\ caller = "none"
    /\ scan_logger = FALSE
    /\ force = FALSE
    /\ pdfs = <<>>
    /\ scan_i = 1
    /\ ingested = <<>>
    /\ signals = <<>>
    /\ caught = <<>>
    /\ attempts = <<>>
    /\ nscans = 0
    /\ spc = "idle"

NoMainOp == [op |-> "none", filename |-> "", completed |-> FALSE]
MainIdle == main_op = NoMainOp

\* no call of Chunker.chunk with the sentence or recursive strategy
GroupIdle ==
    /\ strategy = "fixed"
    /\ max_chunk_size = 1
    /\ source_text = <<>>
    /\ pending = <<>>
    /\ produced = <<>>
    /\ kpc = "idle"

RestIdle ==
    HybridIdle /\ ConcIdle /\ EventIdle /\ ChunkIdle /\ ScanIdle /\ MainIdle /\ GroupIdle

StoreIdle ==
    /\ raised = "none"
    /\ vectors = <<>>
    /\ id_index = <<>>
    /\ dirty = FALSE
    /\ disk = NoFile
    /\ last_op = NoOp

InitQA ==
    /\ StoreIdle
    /\ RestIdle
    /\ max_loops \in 0..MaxLoops
    /\ backend \in Backends
    /\ QAIdle

\* the request arrives: the trace and the run state are created, the job's
\* logger is constructed, and the for loop is entered (or skipped)
Start(m, q) ==
    /\ pc = "idle"
    /\ mode' = m
    /\ user_query' = q
    /\ current_query' = q
    /\ logger' = CASE m = "ask" -> NoLogger
                   [] m = "ask_async" -> LogInfo(EventLogger, "qa_loop_start")
                   [] m = "run_with_events" -> LogInfo(EventLogger, "loop_start")
    /\ pc' = IF ForRange(0) THEN "reformulate" ELSE "loop_exit"
    /\ UNCHANGED <<max_loops, backend, loop_idx, roundLocals, accumulated_chunks,
                   steps, final_answer, final_calls, trace_file, error, storeVars, raised, restVars>>

\* Step 1
Reformulate(reply) ==
    /\ pc = "reformulate"
    /\ LET lg == StageLog("reformulate")
           resp == chat_json(reply)
       IN  \/ /\ reply.form = "raise"
              /\ Abort("ModelCallFailure", lg)
              /\ UNCHANGED <<reform_json, reformulated, steps>>
           \/ /\ reply.form # "raise"
              /\ ~IsDict(resp)
              /\ reform_json' = resp
              /\ Abort("AttributeError", lg)
              /\ UNCHANGED <<reformulated, steps>>
           \/ /\ reply.form # "raise"
              /\ IsDict(resp)
              /\ reform_json' = resp
              /\ reformulated' = Get(resp, "reformulated", current_query)
              /\ steps' = Append(steps, Step("reformulate"))
              /\ pc' = "retrieve_docs"
              /\ logger' = lg
              /\ UNCHANGED error
    /\ UNCHANGED <<mode, max_loops, backend, user_query, current_query, loop_idx,
                   docs, sel_json, chosen_ids, retrieved_chunks, retrieved_tables,
                   chunks, tables, filter_json, answerable, accumulated_chunks,
                   final_answer, final_calls, trace_file, storeVars, raised, restVars>>

\* The loop calls store.retrieve_docs(reformulated, top_k): the signature of
\* LangChainStore.retrieve_docs(query, top_k).  MainStore.retrieve_docs takes
\* (query, query_vec, top_k), so the call raises TypeError there.
PortAccepts == backend = "langchain"

\* Step 2
RetrieveDocs ==
    /\ pc = "retrieve_docs"
    /\ LET lg == StageLog("retrieve_docs")
       IN  \/ /\ ~PortAccepts
              /\ Abort("TypeError", lg)
              /\ UNCHANGED <<docs, steps, reform_json>>
           \/ /\ PortAccepts
              /\ docs' = Take(DocHits(reformulated), top_k_docs)
              /\ reform_json' = NoResp(ReformEmpty)    \* dead local, dropped
              /\ steps' = Append(steps, Step("retrieve_docs"))
              /\ pc' = "select_docs"
              /\ logger' = lg
              /\ UNCHANGED error
    /\ UNCHANGED <<mode, max_loops, backend, user_query, current_query, loop_idx,
                   reformulated, sel_json, chosen_ids,
                   retrieved_chunks, retrieved_tables, chunks, tables, filter_json,
                   answerable, accumulated_chunks, final_answer, final_calls,
                   trace_file, storeVars, raised, restVars>>

\* Step 3
SelectDocs(reply) ==
    /\ pc = "select_docs"
    /\ LET resp == chat_json(reply)
       IN  \/ /\ reply.form = "raise"
              /\ Abort("ModelCallFailure", logger)
              /\ UNCHANGED <<sel_json, chosen_ids, steps>>
           \/ /\ reply.form # "raise"
              /\ ~IsDict(resp)
              /\ sel_json' = resp
              /\ Abort("AttributeError", logger)
              /\ UNCHANGED <<chosen_ids, steps>>
           \/ /\ reply.form # "raise"
              /\ IsDict(resp)
              /\ sel_json' = resp
              /\ chosen_ids' = Get(resp, "chosen_doc_ids", {})
              /\ steps' = Append(steps, Step("select_docs"))
              /\ pc' = "retrieve_chunks"
              /\ UNCHANGED <<logger, error>>
    /\ UNCHANGED <<mode, max_loops, backend, user_query, current_query, loop_idx,
                   reform_json, reformulated, docs, retrieved_chunks,
                   retrieved_tables, chunks, tables, filter_json, answerable,
                   accumulated_chunks, final_answer, final_calls, trace_file,
                   storeVars, raised, restVars>>

\* faulty variant: the filter is applied to an empty selection too
DocFilterAlways(cands, chosen) ==
    SelectSeq2(cands, {c \in RangeOf(cands) : DocId(SourceFile(c)) \in chosen})

\* if chosen_ids:
\*     [c for c in cands if 'doc-' + c['metadata'].get('source_file', '') in chosen]
DocFilter(cands, chosen) ==
    IF chosen # {}
    THEN SelectSeq2(cands, {c \in RangeOf(cands) : DocId(SourceFile(c)) \in chosen})
    ELSE cands

\* Step 4
RetrieveChunks ==
    /\ pc = "retrieve_chunks"
    /\ retrieved_chunks' = Take(ChunkHits(reformulated), top_k_chunks)
    /\ retrieved_tables' = Take(TableHits(reformulated), top_k_tables)
    /\ chunks' = DocFilter(retrieved_chunks', chosen_ids)
    /\ tables' = DocFilter(retrieved_tables', chosen_ids)
    /\ steps' = Append(steps, Step("retrieve_chunks"))
    /\ logger' = StageLog("retrieve_chunks")
    /\ sel_json' = NoResp(SelectEmpty)                  \* dead local, dropped
    /\ pc' = "filter_chunks"
    /\ UNCHANGED <<mode, max_loops, backend, user_query, current_query, loop_idx,
                   reform_json, reformulated, docs, chosen_ids,
                   filter_json, answerable, accumulated_chunks, final_answer,
                   final_calls, trace_file, error, storeVars, raised, restVars>>


\* faulty variant: a record judged relevant is appended whether or not its id is held
PutAppend(acc, c) == Append(acc, c)

\* accumulated_chunks[c['id']] = c on an insertion-ordered dict
Put(acc, c) ==
    IF \E i \in 1..Len(acc) : acc[i].id = c.id
    THEN [i \in 1..Len(acc) |-> IF acc[i].id = c.id THEN c ELSE acc[i]]
    ELSE Append(acc, c)

RECURSIVE Accumulate(_, _, _)
\* for c in limited_chunks: if c['id'] in rel_ids: accumulated_chunks[c['id']] = c
Accumulate(acc, limited, rel_ids) ==
    IF limited = <<>> THEN acc
    ELSE Accumulate(IF Head(limited).id \in rel_ids THEN Put(acc, Head(limited)) ELSE acc,
                    Tail(limited), rel_ids)

\* faulty variant: every retrieved record is presented and merged
LimitedUncapped(cs, ts) == cs \o ts

\* limited_chunks = chunks[:8] + tables[:4]
Limited(cs, ts) == Take(cs, ChunkCap) \o Take(ts, TableCap)

AccIds(acc) == {acc[i].id : i \in 1..Len(acc)}

\* Step 5
FilterChunks(reply) ==
    /\ pc = "filter_chunks"
    /\ LET lg == StageLog("filter_chunks")
           resp == chat_json(reply)
       IN  \/ /\ reply.form = "raise"
              /\ Abort("ModelCallFailure", lg)
              /\ UNCHANGED <<filter_json, answerable, accumulated_chunks, steps>>
           \/ /\ reply.form # "raise"
              /\ ~IsDict(resp)
              /\ filter_json' = resp
              /\ Abort("AttributeError", lg)
              /\ UNCHANGED <<answerable, accumulated_chunks, steps>>
           \/ /\ reply.form # "raise"
              /\ IsDict(resp)
              /\ filter_json' = resp
              /\ accumulated_chunks' =
                    Accumulate(accumulated_chunks, Limited(chunks, tables),
                               Get(resp, "relevant_chunk_ids", {}))
              /\ answerable' = Get(resp, "answerable", FALSE)
              /\ steps' = Append(steps, Step("filter_chunks"))
              /\ pc' = "decide"
              /\ logger' = lg
              /\ UNCHANGED error
    /\ UNCHANGED <<mode, max_loops, backend, user_query, current_query, loop_idx,
                   reform_json, reformulated, docs, sel_json, chosen_ids,
                   retrieved_chunks, retrieved_tables, chunks, tables,
                   final_answer, final_calls, trace_file, storeVars, raised, restVars>>

\* faulty variant: the final round is taken to be number max_loops
LastRoundOffByOne == answerable \/ loop_idx = max_loops

\* if answerable or loop_idx == settings.iterative_max_loops - 1
LastRound == answerable \/ loop_idx = max_loops - 1

\* Step 6: the if/else closing the loop body
Decide ==
    /\ pc = "decide"
    /\ \/ /\ LastRound
          /\ pc' = "final_answer"
          /\ UNCHANGED <<current_query, loop_idx>>
       \/ /\ ~LastRound
          /\ current_query' = Get(filter_json, "missing_info_query", current_query)
          /\ IF ForRange(loop_idx + 1)
             THEN loop_idx' = loop_idx + 1 /\ pc' = "reformulate"
             ELSE loop_idx' = loop_idx /\ pc' = "loop_exit"
    /\ ClearRound      \* the round's locals are dead from here on
    /\ UNCHANGED <<mode, max_loops, backend, user_query, accumulated_chunks, steps,
                   final_answer, final_calls, trace_file, logger, error, storeVars, raised, restVars>>

\* Step 7, then break
FinalAnswer(reply) ==
    /\ pc = "final_answer"
    /\ final_calls' = final_calls + 1
    /\ LET lg == StageLog("final_answer")
           resp == chat_json(reply)
       IN  \/ /\ reply.form = "raise"
              /\ Abort("ModelCallFailure", lg)
              /\ UNCHANGED <<final_answer, steps>>
           \/ /\ reply.form # "raise"
              /\ steps' = Append(steps, Step("final_answer"))
              /\ final_answer' = resp
              /\ \/ /\ rag_debug /\ ~IsDict(resp)   \* final_json.get in the debug print
                    /\ Abort("AttributeError", lg)
                 \/ /\ ~(rag_debug /\ ~IsDict(resp))
                    /\ pc' = "loop_exit"
                    /\ logger' = lg
                    /\ UNCHANGED error
    /\ UNCHANGED <<mode, max_loops, backend, user_query, current_query, loop_idx,
                   roundLocals, accumulated_chunks, trace_file, storeVars, raised, restVars>>

\* json.dump(trace, f): server.ask and the thread of ask_async after run()
\* returned, run_with_events itself after its loop
PersistTrace ==
    /\ pc = "loop_exit"
    /\ trace_file' = [exists |-> TRUE, steps |-> steps, final_answer |-> final_answer]
    /\ pc' = IF mode = "ask" THEN "returned" ELSE "persisted"
    /\ UNCHANGED <<mode, max_loops, backend, user_query, current_query, loop_idx,
                   roundLocals, accumulated_chunks, steps, final_answer,
                   final_calls, logger, error, storeVars, raised, restVars>>

\* logger.info('qa_loop_complete' | 'trace_saved', trace_id=...)
LogSaved ==
    /\ pc = "persisted"
    /\ logger' = LogInfo(logger, IF mode = "ask_async" THEN "qa_loop_complete"
                                 ELSE "trace_saved")
    /\ pc' = "saved"
    /\ UNCHANGED <<mode, max_loops, backend, user_query, current_query, loop_idx,
                   roundLocals, accumulated_chunks, steps, final_answer,
                   final_calls, trace_file, error, storeVars, raised, restVars>>

\* logger.done(status='ok', trace_id=...)
LogFinished ==
    /\ pc = "saved"
    /\ logger' = LogDone(logger)
    /\ pc' = "returned"
    /\ UNCHANGED <<mode, max_loops, backend, user_query, current_query, loop_idx,
                   roundLocals, accumulated_chunks, steps, final_answer,
                   final_calls, trace_file, error, storeVars, raised, restVars>>

NextQA ==
    \/ \E m \in Modes, q \in Queries : Start(m, q)
    \/ \E reply \in Replies(ReformObjs, ReformEmpty) : Reformulate(reply)
    \/ RetrieveDocs
    \/ \E reply \in Replies(SelectObjs, SelectEmpty) : SelectDocs(reply)
    \/ RetrieveChunks
    \/ \E reply \in Replies(FilterObjs, FilterEmpty) : FilterChunks(reply)
    \/ Decide
    \/ \E reply \in Replies(FinalObjs, FinalEmpty) : FinalAnswer(reply)
    \/ PersistTrace
    \/ LogSaved
    \/ LogFinished

SpecQA == InitQA /\ [][NextQA]_vars

\* the run is one sequential function: a step that can be taken is taken
SpecQAFair == SpecQA /\ WF_vars(NextQA)

(***************************************************************************)
(* One SimpleVectorStore driven by its callers.                            *)
(***************************************************************************)
InitStore ==
    /\ StoreIdle
    /\ RestIdle
    /\ max_loops = 0
    /\ backend = "langchain"
    /\ QAIdle

\* add(records, flush)
add(records, fl) ==
    LET st == AddAll([vectors |-> vectors, id_index |-> id_index], records)
    IN  /\ vectors' = st.vectors
        /\ id_index' = st.id_index
        /\ IF ShouldPersist(fl)
           THEN disk' = _persist(st.vectors) /\ dirty' = FALSE
           ELSE disk' = disk /\ dirty' = TRUE
        /\ last_op' = Op("add", records, fl, "", ShouldPersist(fl))
        /\ raised' = "none"
        /\ UNCHANGED <<qaVars, restVars>>

\* delete_by_file(filename)
delete_by_file(filename) ==
    LET keep == Keep(vectors, filename)
    IN  /\ vectors' = keep
        /\ id_index' = Reindex(keep)
        /\ disk' = _persist(keep)
        /\ dirty' = FALSE
        /\ last_op' = Op("delete_by_file", <<>>, FALSE, filename, TRUE)
        /\ raised' = "none"
        /\ UNCHANGED <<qaVars, restVars>>

\* flush()
flush ==
    /\ IF NeedsFlush
       THEN disk' = _persist(vectors) /\ dirty' = FALSE
       ELSE UNCHANGED <<disk, dirty>>
    /\ last_op' = Op("flush", <<>>, FALSE, "", NeedsFlush)
    /\ raised' = "none"
    /\ UNCHANGED <<vectors, id_index, qaVars, restVars>>

\* SimpleVectorStore(persist_path) on the same directory, in a new process;
\* when _load raises, the constructor raises and no store object exists
SimpleVectorStore ==
    /\ IF disk.exists /\ ~LoadRaises(disk)
       THEN /\ vectors' = _load(disk)
            /\ id_index' = LoadIndex(_load(disk))
            /\ raised' = "none"
       ELSE /\ vectors' = <<>>
            /\ id_index' = <<>>
            /\ raised' = IF disk.exists THEN "IndexError" ELSE "none"
    /\ dirty' = FALSE
    /\ last_op' = Op("construct", <<>>, FALSE, "", FALSE)
    /\ UNCHANGED <<disk, qaVars, restVars>>

\* file names handed to delete_by_file: the two ingested files and one never seen
DeleteNames == Files \cup {"c.pdf"}

NextStore ==
    \/ \E records \in Batches, fl \in BOOLEAN : add(records, fl)
    \/ \E filename \in DeleteNames : delete_by_file(filename)
    \/ flush
    \/ SimpleVectorStore

SpecStore == InitStore /\ [][NextStore]_vars

\* where _persist may raise: in np.vstack / np.savez_compressed, before
\* anything is written, or at meta.json, after vectors.npz was written
PersistSteps == {"savez", "dump"}

\* what a _persist that raised at the given step leaves in the directory
_persist_raises(d, vs, at) == IF at = "savez" THEN d ELSE [d EXCEPT !.arr = VStack(vs)]

\* add(records, flush=True) whose _persist raises: the records are merged,
\* self._dirty = False is not reached, and no handler sets self._dirty
add_raises(records, at) ==
    LET st == AddAll([vectors |-> vectors, id_index |-> id_index], records)
    IN  /\ vectors' = st.vectors
        /\ id_index' = st.id_index
        /\ disk' = _persist_raises(disk, st.vectors, at)
        /\ dirty' = dirty
        /\ last_op' = Op("add", records, TRUE, "", FALSE)
        /\ raised' = IF at = "savez" THEN "ValueError" ELSE "OSError"
        /\ UNCHANGED <<qaVars, restVars>>

NextStoreRaising ==
    \/ NextStore
    \/ \E rec \in Recs, at \in PersistSteps : add_raises(<<rec>>, at)

\* the store with persist steps that may fail
SpecStoreRaising == InitStore /\ [][NextStoreRaising]_vars

(***************************************************************************)
(* One store with its HybridIndex, as MainStore holds them: the index is   *)
(* built over the store's record list and then searched.                   *)
(***************************************************************************)
InitHybrid ==
    /\ raised = "none"
    /\ vectors \in Corpora
    /\ id_index = LoadIndex(vectors)
    /\ dirty = FALSE
    /\ disk = _persist(vectors)
    /\ last_op = NoOp
    /\ HybridIdle
    /\ ConcIdle
    /\ EventIdle
    /\ ChunkIdle
    /\ ScanIdle
    /\ MainIdle
    /\ GroupIdle
    /\ max_loops = 0
    /\ backend = "main"
    /\ QAIdle

\* HybridIndex.build(store.vectors), as _rebuild_hybrids calls it
build ==
    /\ idx_records' = vectors
    /\ bm25' = BuildBM25(vectors)
    /\ hits' = <<>>
    /\ last_search' = [NoSearch EXCEPT !.op = "build"]
    /\ UNCHANGED <<qaVars, storeVars, raised, hybridRest>>

\* HybridIndex.hybrid_search(query, query_vec, alpha, top_k); raw is what
\* bm25.get_scores returns for the query
hybrid_search(query_vec, alpha, top_k, raw) ==
    /\ last_search.op = "build"
    /\ hits' = IF idx_records = <<>> THEN <<>>
              ELSE Ranked(idx_records,
                          HybridScore(lexical_scores(idx_records, bm25, raw),
                                      dense_scores(idx_records, query_vec), alpha),
                          top_k)
    /\ last_search' = [op |-> "hybrid_search", query_vec |-> query_vec,
                       alpha |-> alpha, top_k |-> top_k, raw |-> raw]
    /\ UNCHANGED <<idx_records, bm25, qaVars, storeVars, raised, hybridRest>>

\* SimpleVectorStore.search(query_vec, top_k)
search(query_vec, top_k) ==
    /\ last_search.op \in {"none", "build"}
    /\ hits' = IF vectors = <<>> THEN <<>>
              ELSE Ranked(vectors, Sims(vectors, query_vec), top_k)
    /\ last_search' = [op |-> "search", query_vec |-> query_vec,
                       alpha |-> 0, top_k |-> top_k, raw |-> <<>>]
    /\ UNCHANGED <<idx_records, bm25, qaVars, storeVars, raised, hybridRest>>

\* the caller packs the returned list into its answer (_pack) and keeps
\* nothing of it: the next call starts from the index as it is
TakeHits ==
    /\ last_search.op \in {"search", "hybrid_search"}
    /\ hits' = <<>>
    /\ last_search' = [NoSearch EXCEPT !.op = IF bm25 = BuildBM25(vectors) /\ idx_records = vectors
                                              THEN "build" ELSE "none"]
    /\ UNCHANGED <<idx_records, bm25, qaVars, storeVars, raised, hybridRest>>

NextHybrid ==
    \/ build
    \/ TakeHits
    \/ \E query_vec \in QueryVecs, alpha \in Alphas, top_k \in TopKs :
          \E raw \in LexRaw(Len(bm25.corpus)) :
             hybrid_search(query_vec, alpha, top_k, raw)
    \/ \E query_vec \in QueryVecs, top_k \in TopKs : search(query_vec, top_k)

SpecHybrid == InitHybrid /\ [][NextHybrid]_vars

\* what a second load_pdf of a.pdf adds to the summary store: the record of
\* the same id with the new summary, which may hold no token
Resummarised ==
    {VectorRecord("h1", <<1, 0>>, "t2", [source_file |-> "a.pdf"]),
     VectorRecord("h1", <<1, 0>>, "--", [source_file |-> "a.pdf"])}

\* MainStore.load_pdf that raises after self.summary_store.add([sum_record]),
\* in embed_texts for the chunks: add() has written into the list the index
\* holds, and self._rebuild_hybrids() is not reached
load_pdf_raises(sum_record) ==
    /\ last_search.op = "build"
    /\ Len(vectors) < MaxCorpus \/ sum_record.id \in DOMAIN id_index
    /\ LET st == AddAll([vectors |-> vectors, id_index |-> id_index], <<sum_record>>)
       IN  /\ vectors' = st.vectors
           /\ id_index' = st.id_index
           /\ disk' = _persist(st.vectors)
           /\ idx_records' = st.vectors
    /\ dirty' = FALSE
    /\ last_op' = Op("add", <<sum_record>>, TRUE, "", TRUE)
    /\ raised' = "ModelCallFailure"
    /\ UNCHANGED <<bm25, hits, last_search, qaVars, hybridRest>>

NextHybridRaising ==
    \/ NextHybrid
    \/ \E sum_record \in Resummarised : load_pdf_raises(sum_record)

\* the index used also after a load_pdf that failed half-way
SpecHybridRaising == InitHybrid /\ [][NextHybridRaising]_vars

(***************************************************************************)
(* hybrid_search in one thread (a question being answered) while another   *)
(* thread runs MainStore.load_pdf or MainStore.delete_file.  There is no   *)
(* lock around either; threads interleave between attribute reads and      *)
(* writes.  build binds self.records to the store's own list, so a later   *)
(* add() appends to the list the index holds.                              *)
(***************************************************************************)
\* the records the ingesting thread adds: one of a.pdf, one of b.pdf
ConcRecs == {r \in HRecs : r.id \in {"h1", "h4"}}

InitConcurrent ==
    /\ raised = "none"
    /\ vectors \in {c \in Corpora : Len(c) <= 1 /\ RangeOf(c) \subseteq ConcRecs}
    /\ id_index = LoadIndex(vectors)
    /\ dirty = FALSE
    /\ disk = _persist(vectors)
    /\ last_op = NoOp
    /\ idx_records = vectors
    /\ bm25 = BuildBM25(vectors)
    /\ hits = <<>>
    /\ last_search = NoSearch
    /\ ConcIdle
    /\ EventIdle
    /\ ChunkIdle
    /\ ScanIdle
    /\ MainIdle
    /\ GroupIdle
    /\ max_loops = 0
    /\ backend = "main"
    /\ QAIdle

\* load_pdf: store.add(records), appending to the list in place
WAdd(recs) ==
    /\ wpc = "idle"
    /\ Len(vectors) + Len(recs) <= MaxCorpus
    /\ \A i \in 1..Len(recs) : recs[i].id \notin DOMAIN id_index
    /\ LET st == AddAll([vectors |-> vectors, id_index |-> id_index], recs)
       IN  /\ vectors' = st.vectors
           /\ id_index' = st.id_index
           /\ disk' = _persist(st.vectors)
           /\ idx_records' = IF aliased THEN st.vectors ELSE idx_records
    /\ dirty' = FALSE
    /\ last_op' = Op("add", recs, TRUE, "", TRUE)
    /\ wpc' = "rebuild"
    /\ UNCHANGED <<qaVars, concRest, raised, bm25, hits, last_search, aliased, rpc,
                   seen_bm25, seen_records>>

\* delete_file: store.delete_by_file(filename), binding self.vectors to a new list
WDelete(filename) ==
    /\ wpc = "idle"
    /\ LET keep == Keep(vectors, filename)
       IN  /\ vectors' = keep
           /\ id_index' = Reindex(keep)
           /\ disk' = _persist(keep)
    /\ dirty' = FALSE
    /\ last_op' = Op("delete_by_file", <<>>, FALSE, filename, TRUE)
    /\ aliased' = FALSE
    /\ wpc' = "rebuild"
    /\ UNCHANGED <<qaVars, concRest, raised, idx_records, bm25, hits, last_search, rpc,
                   seen_bm25, seen_records>>

\* _rebuild_hybrids -> build: self.records = records
WBuildRecords ==
    /\ wpc = "rebuild"
    /\ idx_records' = vectors
    /\ aliased' = TRUE
    /\ wpc' = "bm25"
    /\ UNCHANGED <<qaVars, concRest, storeVars, raised, bm25, hits, last_search, rpc,
                   seen_bm25, seen_records>>

\* build: the corpus is tokenised and self.bm25 assigned
WBuildBM25 ==
    /\ wpc = "bm25"
    /\ bm25' = BuildBM25(idx_records)
    /\ wpc' = "idle"
    /\ UNCHANGED <<qaVars, concRest, storeVars, raised, idx_records, hits, last_search,
                   aliased, rpc, seen_bm25, seen_records>>

\* hybrid_search: if not self.records: return []
RStart ==
    /\ rpc = "idle"
    /\ IF idx_records = <<>>
       THEN /\ hits' = <<>>
            /\ last_search' = [NoSearch EXCEPT !.op = "hybrid_search"]
            /\ rpc' = "idle"
       ELSE /\ rpc' = "lexical"
            /\ UNCHANGED <<hits, last_search>>
    /\ raised' = "none"
    /\ UNCHANGED <<qaVars, concRest, storeVars, idx_records, bm25, aliased, wpc,
                   seen_bm25, seen_records>>

\* ls = self.lexical_scores(query): scores from self.bm25
RLexical ==
    /\ rpc = "lexical"
    /\ seen_bm25' = bm25
    /\ rpc' = "dense"
    /\ UNCHANGED <<qaVars, concRest, storeVars, raised, hybridVars, aliased, wpc, seen_records>>

\* ds = self.dense_scores(query_vec): scores of self.records
RDense ==
    /\ rpc = "dense"
    /\ seen_records' = idx_records
    /\ rpc' = "rank"
    /\ UNCHANGED <<qaVars, concRest, storeVars, raised, hybridVars, aliased, wpc, seen_bm25>>

\* [(self.records[i], float(score[i])) for i in idxs], reading the list
\* self.records is bound to now: an index beyond it is an IndexError
ReadBack(cur, sc, idxs) ==
    IF \E k \in 1..Len(idxs) : idxs[k] > Len(cur)
    THEN [raised |-> "IndexError", hits |-> <<>>]
    ELSE [raised |-> "none",
          hits |-> [k \in 1..Len(idxs) |-> [rec |-> cur[idxs[k]], score |-> sc[idxs[k]]]]]

RankNow(cur, sc, top_k) == ReadBack(cur, sc, PySlice(Argsort(sc), top_k))

\* the scores are mixed and ranked, and the result reads self.records[i]
RRank(query_vec, alpha, top_k, raw) ==
    /\ rpc = "rank"
    /\ LET out == RankNow(idx_records,
                          HybridScore(lexical_scores(seen_records, seen_bm25, raw),
                                      dense_scores(seen_records, query_vec), alpha),
                          top_k)
       IN  raised' = out.raised /\ hits' = out.hits
    /\ last_search' = [op |-> "hybrid_search", query_vec |-> query_vec,
                       alpha |-> alpha, top_k |-> top_k, raw |-> raw]
    /\ rpc' = "idle"
    /\ UNCHANGED <<qaVars, concRest, storeVars, idx_records, bm25, aliased, wpc,
                   seen_bm25, seen_records>>

NextConcurrent ==
    \/ \E rec \in ConcRecs : WAdd(<<rec>>)
    \/ \E filename \in Files : WDelete(filename)
    \/ WBuildRecords
    \/ WBuildBM25
    \/ RStart
    \/ RLexical
    \/ RDense
    \/ \E top_k \in {1, MaxTopK} : \E raw \in LexRaw(Len(seen_bm25.corpus)) :
          RRank(<<1, 0>>, Scale \div 2, top_k, raw)

SpecConcurrent == InitConcurrent /\ [][NextConcurrent]_vars

(***************************************************************************)
(* A job and its EventLogger, as the tasks of ask_async and                *)
(* upload_pdf_async and the loops given a logger drive it: the logger is   *)
(* constructed, events are emitted, and the job ends with done() or, from  *)
(* the task's except clause, with error().                                 *)
(***************************************************************************)
MaxEvents == 7          \* events a job emits after job_started

InitEvents ==
    /\ StoreIdle
    /\ RestIdle
    /\ max_loops = 0
    /\ backend = "langchain"
    /\ QAIdle

\* logger = EventLogger(job_id)
JobStart ==
    /\ jpc = "idle"
    /\ logger' = EventLogger
    /\ emitted' = <<Evt("job_started", "")>>
    /\ jpc' = "running"
    /\ UNCHANGED <<qaNoLogger, eventRest>>

\* logger.info(...)
JobInfo ==
    /\ jpc = "running"
    /\ Len(emitted) <= MaxEvents
    /\ logger' = LogInfo(logger, Len(emitted))
    /\ emitted' = Append(emitted, Evt("info", Len(emitted)))
    /\ UNCHANGED <<jpc, qaNoLogger, eventRest>>

\* logger.progress(...)
JobProgress ==
    /\ jpc = "running"
    /\ Len(emitted) <= MaxEvents
    /\ logger' = LogProgress(logger, Len(emitted))
    /\ emitted' = Append(emitted, Evt("progress", Len(emitted)))
    /\ UNCHANGED <<jpc, qaNoLogger, eventRest>>

\* except Exception: logger.error(...), the task's last statement
JobError ==
    /\ jpc = "running"
    /\ logger' = LogError(logger, Len(emitted))
    /\ emitted' = Append(emitted, Evt("error", Len(emitted)))
    /\ jpc' = "failed"
    /\ UNCHANGED <<qaNoLogger, eventRest>>

\* logger.done(...), the last statement of the job
JobDone ==
    /\ jpc = "running"
    /\ logger' = LogDone(logger)
    /\ emitted' = Append(emitted, Evt("job_finished", "ok"))
    /\ jpc' = "finished"
    /\ UNCHANGED <<qaNoLogger, eventRest>>

NextEvents == JobStart \/ JobInfo \/ JobProgress \/ JobError \/ JobDone

SpecEvents == InitEvents /\ [][NextEvents]_vars

(***************************************************************************)
(* MainStore.scan_folder (app/stores/main_store.py) and the three places   *)
(* of app/api/server.py that call it.  One step per file of the listing:   *)
(* load_pdf_streaming runs until it returns or one of its calls raises.    *)
(***************************************************************************)
MaxScans == 2           \* calls of scan_folder followed

Names == {"a.pdf", "b.pdf"}
\* [f for f in os.listdir(watch) if f.lower().endswith('.pdf')]
PdfLists ==
    {<<>>} \cup {<<a>> : a \in Names}
           \cup {p \in Names \X Names : p[1] # p[2]}

\* the startup scan and the two endpoints pass no logger; "direct" is a call
\* that passes one
Callers == {"startup", "scan", "scan_folder", "direct"}
PassesLogger(c) == c = "direct"
\* what os.path.isdir / os.listdir do
Listings == {"ok", "nodir", "oserror"}
\* how far load_pdf_streaming gets: it returns, or pdf_loader.load raises,
\* or the summary, a chunk batch or a table batch fails to embed
Fates == {"ok", "parse", "summary", "chunks", "tables"}

\* self.pdf_loader.load(file_path): a.pdf has a chunk and a table, b.pdf a chunk
LoadPdf(name) ==
    IF name = "a.pdf"
    THEN [chunks |-> <<[id |-> "c0-a.pdf", text |-> "t2"]>>,
          tables |-> <<[id |-> "t0-a.pdf", text |-> "t1"]>>]
    ELSE [chunks |-> <<[id |-> "c0-b.pdf", text |-> "t2"]>>, tables |-> <<>>]

FatesOf(name) ==
    IF LoadPdf(name).tables = <<>> THEN Fates \ {"tables"} ELSE Fates

\* VectorRecord(id=f"doc-{filename}", ...)
SummaryRecords(name) ==
    <<VectorRecord(IF name = "a.pdf" THEN "doc-a.pdf" ELSE "doc-b.pdf",
                   <<1, 0>>, "t1", [source_file |-> name])>>
\* VectorRecord(id=c.id + '-' + filename, ...)
RecordsOf(items, name) ==
    [i \in 1..Len(items) |->
        VectorRecord(items[i].id, <<0, 1>>, items[i].text, [source_file |-> name])]

Corpora4 == [stores |-> scan_stores, dirty |-> scan_dirty,
             disk |-> scan_disk, bm25 |-> scan_bm25, records |-> scan_records]

\* add() changes self.vectors in place: an index bound to that list sees it
Seen(S, k, vs) == IF S.records[k].alias THEN [S.records[k] EXCEPT !.list = vs]
                  ELSE S.records[k]

\* store.add(records, flush=False)
AddNoFlush(S, k, records) ==
    [S EXCEPT !.stores[k] = AddAll(@, records), !.dirty[k] = TRUE,
              !.records[k] = Seen(S, k, AddAll(S.stores[k], records).vectors)]

\* faulty variant: only the summary store is flushed
FlushSummaryOnly(S) ==
    [S EXCEPT !.disk["summary"] = IF S.dirty["summary"] THEN S.stores["summary"].vectors
                                  ELSE S.disk["summary"],
              !.dirty["summary"] = FALSE]

\* self.summary_store.flush(); self.chunk_store.flush(); self.table_store.flush()
FlushAll(S) ==
    [S EXCEPT !.disk = [k \in StoreNames |->
                          IF S.dirty[k] THEN S.stores[k].vectors ELSE S.disk[k]],
              !.dirty = [k \in StoreNames |-> FALSE]]

\* _rebuild_hybrids()
_rebuild_hybrids(S) ==
    [S EXCEPT !.bm25 = [k \in StoreNames |-> BuildBM25(S.stores[k].vectors)],
              !.records = [k \in StoreNames |->
                             [alias |-> TRUE, list |-> S.stores[k].vectors]]]

\* faulty variant: the summary is added before the PDF is parsed
StagesParseLate(fate) ==
    CASE fate = "parse"   -> 1
      [] fate = "summary" -> 0
      [] fate = "chunks"  -> 1
      [] fate = "tables"  -> 2
      [] OTHER            -> 4

\* the number of stages of load_pdf_streaming completed when it ends with
\* this fate: adding the summary, the chunks, the tables, flush and rebuild
Stages(fate) ==
    CASE fate = "parse"   -> 0
      [] fate = "summary" -> 0
      [] fate = "chunks"  -> 1
      [] fate = "tables"  -> 2
      [] OTHER            -> 4

\* load_pdf_streaming(path, logger=None) ending with the given fate
load_pdf_streaming(S, name, fate) ==
    LET parsed == LoadPdf(name)
        s1 == IF Stages(fate) >= 1 THEN AddNoFlush(S, "summary", SummaryRecords(name)) ELSE S
        s2 == IF Stages(fate) >= 2
              THEN AddNoFlush(s1, "chunk", RecordsOf(parsed.chunks, name)) ELSE s1
        s3 == IF Stages(fate) >= 3 /\ parsed.tables # <<>>
              THEN AddNoFlush(s2, "table", RecordsOf(parsed.tables, name)) ELSE s2
    IN  IF Stages(fate) >= 4 THEN _rebuild_hybrids(FlushAll(s3)) ELSE s3

Signal(event, filename) == [event |-> event, filename |-> filename]
Emit(sig, on, event, filename) == IF on THEN Append(sig, Signal(event, filename)) ELSE sig

\* scan_folder(logger, force) is called; the listing is taken
ScanStart(c, f, listing, names) ==
    /\ spc \in {"idle", "done", "raised"}
    /\ nscans < MaxScans
    /\ c = "startup" => nscans = 0
    /\ f => c \in {"scan_folder", "direct"}
    /\ listing # "ok" => names = <<>>
    /\ nscans' = nscans + 1
    /\ caller' = c
    /\ scan_logger' = PassesLogger(c)
    /\ force' = f
    /\ pdfs' = names
    /\ scan_i' = 1
    /\ ingested' = <<>>
    /\ attempts' = <<>>
    /\ CASE listing = "nodir" ->
               \* return {"scanned": 0, "ingested": 0, "files": []}
               /\ spc' = "done"
               /\ signals' = <<>>
               /\ caught' = <<>>
         [] listing = "oserror" ->
               \* os.listdir raises: only the startup scan catches it
               /\ signals' = <<>>
               /\ IF c = "startup"
                  THEN spc' = "done" /\ caught' = <<Signal("startup_scan", "")>>
                  ELSE spc' = "raised" /\ caught' = <<>>
         [] OTHER ->
               /\ spc' = "loop"
               /\ signals' = Emit(<<>>, PassesLogger(c), "scan_start", "")
               /\ caught' = <<>>
    /\ UNCHANGED <<scanCorpora, _ingested, scanRest>>

\* if not force and name in self._ingested: continue
ScanSkip ==
    /\ spc = "loop"
    /\ scan_i <= Len(pdfs)
    /\ ~force /\ pdfs[scan_i] \in _ingested
    /\ scan_i' = scan_i + 1
    /\ UNCHANGED <<scanCorpora, _ingested, caller, scan_logger, force, pdfs,
                   ingested, signals, caught, attempts, nscans, spc, scanRest>>

Attempt(name, fate, S, T, ing, ingAfter) ==
    [name |-> name, fate |-> fate, before |-> S, after |-> T,
     ingested_before |-> ing, ingested_after |-> ingAfter]

\* the try block: load_pdf_streaming returned
ScanTry(name, T) ==
    /\ scan_stores' = T.stores
    /\ scan_dirty' = T.dirty
    /\ scan_disk' = T.disk
    /\ scan_bm25' = T.bm25
    /\ scan_records' = T.records
    /\ _ingested' = _ingested \cup {name}
    /\ ingested' = Append(ingested, name)
    /\ signals' = Emit(signals, scan_logger, "file_ingested", name)
    /\ caught' = caught
    /\ attempts' = Append(attempts, Attempt(name, "ok", Corpora4, T, _ingested,
                                             _ingested \cup {name}))
    /\ scan_i' = scan_i + 1
    /\ spc' = spc

\* except Exception as e: if logger: logger.error('file_failed', ...)
ScanExcept(name, fate, T) ==
    /\ scan_stores' = T.stores
    /\ scan_dirty' = T.dirty
    /\ scan_disk' = T.disk
    /\ scan_bm25' = T.bm25
    /\ scan_records' = T.records
    /\ _ingested' = _ingested
    /\ ingested' = ingested
    /\ signals' = Emit(signals, scan_logger, "file_failed", name)
    /\ caught' = Append(caught, Signal("file_failed", name))
    /\ attempts' = Append(attempts, Attempt(name, fate, Corpora4, T, _ingested, _ingested))
    /\ scan_i' = scan_i + 1
    /\ spc' = spc

\* one pass of the loop body for a file that is not skipped
ScanFile(fate) ==
    /\ spc = "loop"
    /\ scan_i <= Len(pdfs)
    /\ force \/ pdfs[scan_i] \notin _ingested
    /\ fate \in FatesOf(pdfs[scan_i])
    /\ IF fate = "ok"
       THEN ScanTry(pdfs[scan_i], load_pdf_streaming(Corpora4, pdfs[scan_i], fate))
       ELSE ScanExcept(pdfs[scan_i], fate,
                       load_pdf_streaming(Corpora4, pdfs[scan_i], fate))
    /\ UNCHANGED <<caller, scan_logger, force, pdfs, nscans, scanRest>>

\* if logger: logger.done(status='ok', ...); return
ScanReturn ==
    /\ spc = "loop"
    /\ scan_i > Len(pdfs)
    /\ signals' = Emit(signals, scan_logger, "job_finished", "")
    /\ spc' = "done"
    /\ UNCHANGED <<scanCorpora, _ingested, caller, scan_logger, force, pdfs, scan_i,
                   ingested, caught, attempts, nscans, scanRest>>

InitScan ==
    /\ StoreIdle
    /\ HybridIdle /\ ConcIdle /\ EventIdle /\ ChunkIdle
    /\ max_loops = 0
    /\ backend = "langchain"
    /\ QAIdle
    /\ ScanIdle
    /\ MainIdle
    /\ GroupIdle

NextScan ==
    \/ \E c \in Callers, f \in BOOLEAN, listing \in Listings, names \in PdfLists :
          ScanStart(c, f, listing, names)
    \/ ScanSkip
    \/ \E fate \in Fates : ScanFile(fate)
    \/ ScanReturn

SpecScan == InitScan /\ [][NextScan]_vars

(***************************************************************************)
(* The other mutating operations of MainStore, as the endpoints of         *)
(* app/api/server.py call them: load_pdf (POST /upload), load_pdf_streaming *)
(* (POST /upload_async) and delete_file (DELETE /files/{filename}).        *)
(***************************************************************************)
\* store.add(records): flush defaults to True, so _persist runs
AddFlush(S, k, records) ==
    LET st == AddAll(S.stores[k], records)
    IN  [S EXCEPT !.stores[k] = st, !.disk[k] = st.vectors, !.dirty[k] = FALSE,
                  !.records[k] = Seen(S, k, st.vectors)]

\* store.delete_by_file(filename): self.vectors becomes a new list, the index
\* keeps the list it was built on
DeleteByFile(S, k, filename) ==
    LET keep == Keep(S.stores[k].vectors, filename)
    IN  [S EXCEPT !.stores[k] = [vectors |-> keep, id_index |-> Reindex(keep)],
                  !.disk[k] = keep, !.dirty[k] = FALSE,
                  !.records[k] = [alias |-> FALSE, list |-> S.records[k].list]]

\* load_pdf(path) ending with the given fate
load_pdf(S, name, fate) ==
    LET parsed == LoadPdf(name)
        s1 == IF Stages(fate) >= 1 THEN AddFlush(S, "summary", SummaryRecords(name)) ELSE S
        s2 == IF Stages(fate) >= 2
              THEN AddFlush(s1, "chunk", RecordsOf(parsed.chunks, name)) ELSE s1
        s3 == IF Stages(fate) >= 3 /\ parsed.tables # <<>>
              THEN AddFlush(s2, "table", RecordsOf(parsed.tables, name)) ELSE s2
    IN  IF Stages(fate) >= 4 THEN _rebuild_hybrids(s3) ELSE s3

\* faulty variant: delete_file returns without rebuilding the indices
delete_file_no_rebuild(S, filename) ==
    DeleteByFile(DeleteByFile(DeleteByFile(S, "summary", filename), "chunk", filename),
                 "table", filename)

\* delete_file(filename)
delete_file(S, filename) ==
    _rebuild_hybrids(
        DeleteByFile(DeleteByFile(DeleteByFile(S, "summary", filename), "chunk", filename),
                     "table", filename))

MainOp(op, filename, completed) ==
    [op |-> op, filename |-> filename, completed |-> completed]

Becomes(T) ==
    /\ scan_stores' = T.stores
    /\ scan_dirty' = T.dirty
    /\ scan_disk' = T.disk
    /\ scan_bm25' = T.bm25
    /\ scan_records' = T.records

\* POST /upload: store.load_pdf(dest_path)
upload_pdf(name, fate) ==
    /\ fate \in FatesOf(name)
    /\ Becomes(load_pdf(Corpora4, name, fate))
    /\ main_op' = MainOp("load_pdf", name, fate = "ok")
    /\ UNCHANGED mainRest

\* the task of POST /upload_async: store.load_pdf_streaming(dest_path, logger)
upload_pdf_async(name, fate) ==
    /\ fate \in FatesOf(name)
    /\ Becomes(load_pdf_streaming(Corpora4, name, fate))
    /\ main_op' = MainOp("load_pdf_streaming", name, fate = "ok")
    /\ UNCHANGED mainRest

\* DELETE /files/{filename}: store.delete_file(filename)
DeleteFile(filename) ==
    /\ Becomes(delete_file(Corpora4, filename))
    /\ main_op' = MainOp("delete_file", filename, TRUE)
    /\ UNCHANGED mainRest

NextMain ==
    \/ \E name \in Names, fate \in Fates : upload_pdf(name, fate)
    \/ \E name \in Names, fate \in Fates : upload_pdf_async(name, fate)
    \/ \E filename \in Names \cup {"c.pdf"} : DeleteFile(filename)

SpecMain == InitScan /\ [][NextMain]_vars

(***************************************************************************)
(* Chunker._fixed (app/services/chunking.py): a sliding window over the    *)
(* text, one chunk per step of the generator.                              *)
(***************************************************************************)
MaxText == 10           \* longest text
MaxChunk == 4           \* largest chunk_size and overlap
\* chunks a generator is followed for (with overlap >= chunk_size it never ends)
YieldCap == MaxText + 1

Text == [i \in 1..text_n |-> i]
\* text[a:b]
Slice(a, b) == SubSeq(Text, a + 1, b)
TextChunk(a, b) == [text |-> Slice(a, b), start |-> a, end |-> b]

InitChunk ==
    /\ StoreIdle
    /\ HybridIdle /\ ConcIdle /\ EventIdle /\ ScanIdle /\ MainIdle /\ GroupIdle
    /\ max_loops = 0
    /\ backend = "langchain"
    /\ QAIdle
    /\ text_n \in 0..MaxText
    /\ chunk_size \in 1..MaxChunk
    /\ overlap \in 0..MaxChunk
    /\ start = 0
    /\ yielded = <<>>
    /\ cpc = "idle"

\* end = min(start + self.chunk_size, n)
WindowEnd == IF start + chunk_size < text_n THEN start + chunk_size ELSE text_n

\* faulty variant: the next window starts where this one ended
NextStartAtEnd(e) == e

\* start = end - self.overlap; if start < 0: start = 0
NextStart(e) == IF e - overlap < 0 THEN 0 ELSE e - overlap

\* start = 0; n = len(text); while start < n
FixedEnter ==
    /\ cpc = "idle"
    /\ start' = 0
    /\ cpc' = IF 0 < text_n THEN "loop" ELSE "done"
    /\ UNCHANGED <<text_n, chunk_size, overlap, yielded, chunkRest>>

\* one pass of the loop body: yield the window, stop at the end of the text
\* or move start
FixedYield ==
    /\ cpc = "loop"
    /\ Len(yielded) < YieldCap
    /\ yielded' = Append(yielded, TextChunk(start, WindowEnd))
    /\ IF WindowEnd = text_n
       THEN cpc' = "done" /\ start' = start
       ELSE /\ start' = NextStart(WindowEnd)
            /\ cpc' = IF NextStart(WindowEnd) < text_n THEN "loop" ELSE "done"
    /\ UNCHANGED <<text_n, chunk_size, overlap, chunkRest>>

NextChunk == FixedEnter \/ FixedYield

SpecChunk == InitChunk /\ [][NextChunk]_vars

(***************************************************************************)
(* Chunker.chunk with the sentence and recursive strategies                *)
(* (app/services/chunking.py).  A text is a sequence of characters:        *)
(* sentences "a.", "aa.", ... with a white-space gap between them.         *)
(***************************************************************************)
MaxSentences == 2       \* most sentences in a text
MaxSentence == 5        \* longest sentence

\* the characters [.!?] and \s of sentence_split_regex (core/config.py)
Punctuation == {".", "!", "?"}
WhiteSpace == {" ", "\n"}

Sentence(n) == [i \in 1..n |-> IF i = n THEN "." ELSE "a"]
Gaps == {<<" ">>, <<"\n">>, <<" ", " ">>}

RECURSIVE TextsOf(_)
\* texts of exactly n sentences
TextsOf(n) ==
    IF n = 1 THEN {Sentence(k) : k \in 2..MaxSentence}
    ELSE {t \o g \o Sentence(k) : t \in TextsOf(n - 1), g \in Gaps, k \in 2..MaxSentence}

Texts == UNION {TextsOf(n) : n \in 1..MaxSentences}

RECURSIVE Join(_)
\* ' '.join(buf)
Join(buf) ==
    IF buf = <<>> THEN <<>>
    ELSE IF Len(buf) = 1 THEN buf[1]
    ELSE buf[1] \o <<" ">> \o Join(Tail(buf))

RECURSIVE Strip(_)
\* p.strip()
Strip(p) ==
    IF p = <<>> THEN <<>>
    ELSE IF p[1] \in WhiteSpace THEN Strip(Tail(p))
    ELSE IF p[Len(p)] \in WhiteSpace THEN Strip(SubSeq(p, 1, Len(p) - 1))
    ELSE p

\* the match of (?<=[.!?])\s+ at position i (1-based), if there is one
Matches(t, i) == i > 1 /\ i <= Len(t) /\ t[i - 1] \in Punctuation /\ t[i] \in WhiteSpace

RECURSIVE MatchEnd(_, _)
\* \s+ is greedy: the first position after the white space from i on
MatchEnd(t, i) == IF i <= Len(t) /\ t[i] \in WhiteSpace THEN MatchEnd(t, i + 1) ELSE i

RECURSIVE RegexSplit(_, _, _, _)
\* self.sentence_regex.split(text), read from position i with the part
\* begun at position from
RegexSplit(t, i, from, parts) ==
    IF i > Len(t) THEN Append(parts, SubSeq(t, from, Len(t)))
    ELSE IF Matches(t, i)
         THEN RegexSplit(t, MatchEnd(t, i), MatchEnd(t, i),
                         Append(parts, SubSeq(t, from, i - 1)))
         ELSE RegexSplit(t, i + 1, from, parts)

\* [p.strip() for p in parts if p.strip()]
_split_sentences(t) ==
    LET parts == RegexSplit(t, 1, 1, <<>>)
    IN  SelectSeq([j \in 1..Len(parts) |-> Strip(parts[j])], LAMBDA q : q # <<>>)

\* text.find(s, cursor): the first offset from cursor on where s stands, or -1
Find(t, s, cursor) ==
    LET at == {q \in cursor..(Len(t) - Len(s)) : SubSeq(t, q + 1, q + Len(s)) = s}
    IN  IF at = {} THEN 0 - 1 ELSE CHOOSE q \in at : \A r \in at : q <= r

\* TextChunk(text=chunk_text, start=chunk_start, end=chunk_end)
ChunkOf(chunk_text, a, b) == [text |-> chunk_text, start |-> a, end |-> b]

RECURSIVE SentenceLoop(_, _, _, _, _, _, _, _, _)
\* the loop of _sentence_group from sentence i on, and the yield after it
SentenceLoop(t, ss, size, i, buf, buf_len, cursor, chunk_start, out) ==
    IF i > Len(ss)
    THEN IF buf # <<>>
         THEN Append(out, ChunkOf(Join(buf), chunk_start, chunk_start + Len(Join(buf))))
         ELSE out
    ELSE LET s == ss[i]
             cs == IF buf = <<>> THEN Find(t, s, cursor) ELSE chunk_start
             tentative_len == buf_len + (IF buf # <<>> THEN 1 ELSE 0) + Len(s)
             chunk_end == cs + Len(Join(buf))
         IN  IF tentative_len > size /\ buf # <<>>
             THEN SentenceLoop(t, ss, size, i + 1, <<s>>, Len(s), chunk_end,
                               Find(t, s, chunk_end),
                               Append(out, ChunkOf(Join(buf), cs, chunk_end)))
             ELSE SentenceLoop(t, ss, size, i + 1, Append(buf, s),
                               buf_len + (IF buf_len > 0 THEN 1 ELSE 0) + Len(s),
                               cursor, cs, out)

\* list(self._sentence_group(text))
_sentence_group(t) ==
    SentenceLoop(t, _split_sentences(t), chunk_size, 1, <<>>, 0, 0, 0, <<>>)

\* TextChunk(text=sub.text, start=group.start + sub.start, end=group.start + sub.end)
\* where sub.text is group.text[sub.start:sub.end]: _fixed ran on group.text,
\* and its chunk holds the positions of group.text it covers
Sub(group, sub) ==
    [text |-> [i \in DOMAIN sub.text |-> group.text[sub.text[i]]],
     start |-> group.start + sub.start,
     end |-> group.start + sub.end]

InitStrategy ==
    /\ StoreIdle
    /\ HybridIdle /\ ConcIdle /\ EventIdle /\ ScanIdle /\ MainIdle
    /\ max_loops = 0
    /\ backend = "langchain"
    /\ QAIdle
    /\ source_text \in Texts
    /\ strategy \in {"sentence", "recursive"}
    \* up to the size that holds a group of two sentences
    /\ chunk_size \in 1..(MaxChunk + 1)
    /\ overlap \in 0..MaxChunk
    /\ max_chunk_size \in 1..MaxChunk
    /\ text_n = Len(source_text)
    /\ start = 0
    /\ yielded = <<>>
    /\ cpc = "idle"
    /\ pending = <<>>
    /\ produced = <<>>
    /\ kpc = "idle"

\* Chunker.chunk: the sentence strategy returns the groups, the recursive
\* strategy goes through them
ChunkCall ==
    /\ kpc = "idle"
    /\ IF strategy = "sentence"
       THEN /\ produced' = _sentence_group(source_text)
            /\ pending' = pending
            /\ kpc' = "done"
       ELSE /\ pending' = _sentence_group(source_text)
            /\ produced' = produced
            /\ kpc' = "groups"
    /\ UNCHANGED <<strategy, max_chunk_size, source_text, chunkVars, strategyRest>>

\* len(group.text) <= self.max_chunk_size
Fits(group) == Len(group.text) <= max_chunk_size

\* _recursive: a group within max_chunk_size is yielded as it is
RecursiveYield ==
    /\ kpc = "groups"
    /\ pending # <<>>
    /\ Fits(Head(pending))
    /\ produced' = Append(produced, Head(pending))
    /\ pending' = Tail(pending)
    /\ UNCHANGED <<strategy, max_chunk_size, source_text, kpc, chunkVars, strategyRest>>

\* _recursive: a longer group goes to self._fixed(group.text)
RecursiveFixed ==
    /\ kpc = "groups"
    /\ pending # <<>>
    /\ ~Fits(Head(pending))
    /\ text_n' = Len(Head(pending).text)
    /\ start' = 0
    /\ yielded' = <<>>
    /\ cpc' = "loop"
    /\ kpc' = "fixed"
    /\ UNCHANGED <<strategy, max_chunk_size, source_text, pending, produced,
                   chunk_size, overlap, strategyRest>>

\* _recursive: the chunks of _fixed, moved to the group's place in the text
RecursiveSubs ==
    /\ kpc = "fixed"
    /\ cpc = "done"
    /\ produced' = produced \o [j \in 1..Len(yielded) |-> Sub(Head(pending), yielded[j])]
    /\ pending' = Tail(pending)
    /\ yielded' = <<>>
    /\ cpc' = "idle"
    /\ kpc' = "groups"
    /\ UNCHANGED <<strategy, max_chunk_size, source_text, text_n, chunk_size, overlap,
                   start, strategyRest>>

\* _recursive has gone through every group
RecursiveReturn ==
    /\ kpc = "groups"
    /\ pending = <<>>
    /\ kpc' = "done"
    /\ UNCHANGED <<strategy, max_chunk_size, source_text, pending, produced,
                   chunkVars, strategyRest>>

NextStrategy ==
    \/ ChunkCall
    \/ RecursiveYield
    \/ RecursiveFixed
    \/ FixedYield
    \/ RecursiveSubs
    \/ RecursiveReturn

SpecStrategy == InitStrategy /\ [][NextStrategy]_vars

(***************************************************************************)
(* Constructing a store on a directory it did not write in one piece:      *)
(* _persist writes vectors.npz and then meta.json, so an interrupted       *)
(* _persist (or files restored separately) leaves a matrix and a metadata  *)
(* list of different lengths.                                              *)
(***************************************************************************)
MaxRows == 3

RowSeqs == SeqsUpTo({<<1, 0>>, <<0, 1>>}, MaxRows)
Dirs ==
    {[exists |-> TRUE,
      arr |-> [ncols |-> IF rows = <<>> THEN 1 ELSE 2, rows |-> rows],
      meta |-> MetaOf(b)] : rows \in RowSeqs, b \in Batches}

InitLoad ==
    /\ raised = "none"
    /\ vectors = <<>>
    /\ id_index = <<>>
    /\ dirty = FALSE
    /\ disk \in Dirs
    /\ last_op = NoOp
    /\ RestIdle
    /\ max_loops = 0
    /\ backend = "langchain"
    /\ QAIdle

NextLoad == SimpleVectorStore

SpecLoad == InitLoad /\ [][NextLoad]_vars

(***************************************************************************)
(* Properties of the answering loop (checked under SpecQA / SpecQAFair).   *)
(***************************************************************************)
InRound ==
    pc \in {"reformulate", "retrieve_docs", "select_docs", "retrieve_chunks",
            "filter_chunks", "decide", "final_answer"}
Ended == pc \in {"returned", "aborted"}
CountSteps(type) == Cardinality({i \in 1..Len(steps) : steps[i].type = type})
HasErrorEvent(lg) == \E i \in 1..Len(Emitted(lg)) : Emitted(lg)[i].event = "error"

RoundsBounded ==
    /\ InRound => (0 <= loop_idx /\ loop_idx < max_loops)
    /\ CountSteps("reformulate") <= max_loops
    /\ \A i \in 1..Len(steps) : steps[i].loop < max_loops

\* C1: a run executes at most max_loops rounds, whatever the query and the
\* model's replies (failing calls included), and it always ends: it returns
\* or it aborts with the error.
C1_BoundedRoundsAndEnds == [](RoundsBounded) /\ <>(Ended)

\* C1 witness: a run that used every allowed round and returned
C1_Witness ==
    /\ pc = "returned"
    /\ max_loops = MaxLoops
    /\ CountSteps("reformulate") = max_loops

\* C2: every run that completes without an error made exactly one
\* FinalAnswer call and returns a trace carrying final_answer, for every
\* configured max_loops.
C2_AnswerExactlyOnce ==
    pc = "returned" =>
        /\ final_calls = 1
        /\ final_answer.kind # "none"
        /\ trace_file.final_answer.kind # "none"

\* C3: when a model call raises, at any stage of any round and on each of
\* the three paths, the run is aborted and no trace file exists: none of the
\* steps appended before the failure is persisted.
C3_NoTraceAfterModelFailure ==
    error = "ModelCallFailure" =>
        /\ pc = "aborted"
        /\ ~trace_file.exists
        /\ trace_file.steps = <<>>

\* C3 witness: a model call failed after a full round of steps was appended
C3_Witness ==
    /\ error = "ModelCallFailure"
    /\ mode = "ask_async"
    /\ Len(steps) > 5
    /\ ~trace_file.exists

\* C4: a model call failing inside run_with_events leaves an error event in
\* the logger the run was given, and no trace.
C4_ErrorEventOnFailure ==
    (mode = "run_with_events" /\ error = "ModelCallFailure") =>
        /\ HasErrorEvent(logger)
        /\ ~trace_file.exists

\* the k-th candidate of cands that passes the document test
KeptIndices(cands, chosen) ==
    {i \in 1..Len(cands) : DocId(SourceFile(cands[i])) \in chosen}
NthOf(I, k) == CHOOSE i \in I : Cardinality({j \in I : j < i}) = k - 1
FilterLaw(cands, kept, chosen) ==
    IF chosen = {} THEN kept = cands
    ELSE LET I == KeptIndices(cands, chosen)
         IN  /\ Len(kept) = Cardinality(I)
             /\ \A k \in 1..Len(kept) : kept[k] = cands[NthOf(I, k)]

\* C5: after RetrieveChunks the chunk and table candidates are the retrieved
\* lists unchanged when the selection is empty, and otherwise exactly the
\* retrieved candidates whose 'doc-' + source_file is selected, in retrieved order.
C5_DocFilter ==
    pc \in {"filter_chunks", "decide"} =>
        /\ FilterLaw(retrieved_chunks, chunks, chosen_ids)
        /\ FilterLaw(retrieved_tables, tables, chosen_ids)

\* C5 witness: a non-empty selection that kept some candidates and dropped others
C5_Witness ==
    /\ pc = "filter_chunks"
    /\ chosen_ids # {}
    /\ 0 < Len(chunks) /\ Len(chunks) < Len(retrieved_chunks)
    /\ Len(tables) < Len(retrieved_tables)

\* C6: a Reformulate response without a usable 'reformulated' field (key
\* missing, raw-payload fallback, JSON that is not an object) does not abort
\* the run, and the round retrieves with the unchanged current_query.
C6_ReformulateFallback ==
    (/\ reform_json.kind \in {"object", "raw", "nonobject"}
     /\ "reformulated" \notin reform_json.keys
     /\ error \in {"none", "AttributeError"}) =>
        /\ pc = "retrieve_docs"
        /\ reformulated = current_query

(***************************************************************************)
(* Properties of the vector store (checked under SpecStore).               *)
(***************************************************************************)
IdsOf(records) == {records[i].id : i \in 1..Len(records)}
LastWith(records, id) ==
    records[CHOOSE i \in 1..Len(records) :
                /\ records[i].id = id
                /\ \A j \in 1..Len(records) : records[j].id = id => j <= i]
\* the records the directory describes
DiskRecords(d) == IF d.exists THEN _load(d) ELSE <<>>

\* C7: add is an upsert by id: every id stored before keeps its position,
\* each id of the batch ends up carrying the batch's last record for it, the
\* other records are untouched, and the store grows only by the ids that
\* were not stored before (not by re-added ones).
C7_AddIdempotentOnId ==
    [][last_op'.op = "add" =>
        LET records == last_op'.records
        IN  /\ \A id \in DOMAIN id_index :
                  id \in DOMAIN id_index' /\ id_index'[id] = id_index[id]
            /\ Len(vectors') = Len(vectors) + Cardinality(IdsOf(records) \ DOMAIN id_index)
            /\ \A id \in IdsOf(records) :
                  vectors'[id_index'[id] + 1] = LastWith(records, id)
            /\ \A i \in 1..Len(vectors) :
                  vectors[i].id \notin IdsOf(records) => vectors'[i] = vectors[i]
    ]_vars

\* C7 witness: r1 was stored by an earlier call, was re-added with other
\* content, and the store still holds one record per id
C7_Witness ==
    /\ last_op.op = "add"
    /\ last_op.pre.ids = {"r1", "r2"}
    /\ IdsOf(last_op.records) = {"r1"}
    /\ Len(vectors) = 2
    /\ vectors[id_index["r1"] + 1].text = "t2"
    /\ id_index["r1"] = 1

\* C8: delete_by_file of a name no stored record carries leaves the record
\* list, the id index and the persisted records as they were, dirty or not.
C8_DeleteAbsentIsNoOp ==
    [][(/\ last_op'.op = "delete_by_file"
        /\ \A i \in 1..Len(vectors) : vectors[i].metadata.source_file # last_op'.filename) =>
         /\ vectors' = vectors
         /\ id_index' = id_index
         /\ DiskRecords(disk') = DiskRecords(disk)
    ]_vars

\* C9: add(records, flush=False) leaves the directory as it was and marks
\* the store dirty; flush() of a dirty store makes the directory describe the
\* in-memory records; flush() of a clean store writes nothing.
C9_BufferedAddThenFlush ==
    [][/\ (last_op'.op = "add" /\ ~last_op'.flush) =>
            (disk' = disk /\ dirty' /\ ~last_op'.persisted)
       /\ (last_op'.op = "flush" /\ dirty) =>
            (/\ vectors' = vectors
             /\ disk'.exists /\ DiskRecords(disk') = vectors
             /\ ~dirty')
       /\ (last_op'.op = "flush" /\ ~dirty) =>
            (disk' = disk /\ ~last_op'.persisted /\ ~dirty')
    ]_vars

\* C9 witness: records were buffered, the directory did not have them, and a
\* flush() has just written them
C9_Witness ==
    /\ last_op.op = "flush"
    /\ last_op.pre.dirty
    /\ Len(vectors) = 2
    /\ DiskRecords(disk) = vectors

\* the index maps each stored id to the position of its record
IndexMatches(vs, idx) ==
    /\ DOMAIN idx = IdsOf(vs)
    /\ \A i \in 1..Len(vs) : idx[vs[i].id] = i - 1

\* C10: constructing a store on the directory of a persisted (not dirty)
\* store gives the same records in the same order, with the same id, text,
\* metadata and vector, and an index mapping each id to its position; the
\* empty store included.
C10_PersistLoadRoundTrip ==
    [][(last_op'.op = "construct" /\ ~dirty) =>
         /\ vectors' = vectors
         /\ IndexMatches(vectors', id_index')
    ]_vars

\* C10 witness: a persisted store of two records with different vectors was
\* constructed again from its directory
C10_Witness ==
    /\ last_op.op = "construct"
    /\ ~last_op.pre.dirty
    /\ Len(vectors) = 2
    /\ vectors[1].vector # vectors[2].vector
    /\ DiskRecords(disk) = vectors

(***************************************************************************)
(* Properties of loading a directory (checked under SpecLoad).             *)
(***************************************************************************)
Misaligned(d) == d.exists /\ Len(d.arr.rows) # Len(d.meta)

\* C11: constructing a store on a directory whose matrix has more or fewer
\* rows than its metadata list has entries fails: the constructor raises and
\* no store holds records loaded from the misaligned pair.
C11_MisalignedLoadFails ==
    (last_op.op = "construct" /\ Misaligned(disk)) =>
        (raised # "none" /\ vectors = <<>>)

(***************************************************************************)
(* Properties of searching (checked under SpecHybrid).                     *)
(***************************************************************************)
Searched == last_search.op \in {"search", "hybrid_search"}
NonIncreasing(hs) == \A i \in 1..(Len(hs) - 1) : hs[i].score >= hs[i + 1].score

\* C12: on a non-empty corpus, search and hybrid_search return at most top_k
\* results (top_k a count, 0 and counts above the corpus size included),
\* with scores that never increase along the list.
C12_TopKSortedResults ==
    (Searched /\ vectors # <<>>) =>
        /\ Len(hits) <= last_search.top_k
        /\ NonIncreasing(hits)

\* C12 witness: a hybrid search mixing dense and lexical scores cut a
\* three-record corpus down to two results of different score
C12_Witness ==
    /\ last_search.op = "hybrid_search"
    /\ last_search.alpha = Scale \div 2
    /\ last_search.top_k = 2
    /\ Len(idx_records) = 3
    /\ Len(bm25.corpus) = 3
    /\ Len(hits) = 2
    /\ hits[1].score > hits[2].score

\* C13: over a corpus none of whose records yields a token, build leaves
\* lexical scoring off without raising, and hybrid_search returns, for every
\* query and alpha, the records, scores and order of ranking by dense_scores.
C13_NoTokensIsPureDense ==
    (last_search.op = "hybrid_search" /\ CorpusOf(idx_records) = <<>>) =>
        /\ ~bm25.built
        /\ raised = "none"
        /\ hits = Ranked(idx_records,
                         dense_scores(idx_records, last_search.query_vec),
                         last_search.top_k)

\* C13 witness: two token-less records searched with alpha one half
C13_Witness ==
    /\ last_search.op = "hybrid_search"
    /\ last_search.alpha = Scale \div 2
    /\ Len(idx_records) = 2
    /\ CorpusOf(idx_records) = <<>>
    /\ Len(hits) = 2
    /\ hits[1].score > hits[2].score

(***************************************************************************)
(* Properties of searching during ingestion (checked under SpecConcurrent).*)
(***************************************************************************)
\* C14: a hybrid_search running while another thread ingests, deletes or
\* rebuilds scores a record list and a lexical structure of one corpus
\* snapshot: the bm25 it used is the one built from the records it scored.
C14_SearchSeesOneSnapshot ==
    rpc = "rank" => seen_bm25 = BuildBM25(seen_records)

(***************************************************************************)
(* Properties of a job's event stream (checked under SpecEvents).          *)
(***************************************************************************)
IsPrefix(a, b) == Len(a) <= Len(b) /\ \A i \in 1..Len(a) : a[i] = b[i]
Finishes(evts) == {i \in 1..Len(evts) : evts[i].event = "job_finished"}

\* C15: the events file of a job holds job_finished at most once; the file
\* is always a prefix of what the job emitted, in emission order; and when
\* job_finished is in the file, everything emitted before done() precedes it.
C15_FinishedOnceAfterAllPrior ==
    /\ Cardinality(Finishes(logger.file)) <= 1
    /\ IsPrefix(logger.file, emitted)
    /\ Finishes(logger.file) # {} =>
          /\ logger.file = emitted
          /\ logger.file[Len(logger.file)].event = "job_finished"

\* C15 witness: a finished job whose events were flushed by the threshold
\* once and whose later events were still buffered when done() was called
C15_Witness ==
    /\ jpc = "finished"
    /\ Len(emitted) = MaxEvents + 1
    /\ Len(logger.file) = MaxEvents + 1
    /\ logger.buffer = <<>>

(***************************************************************************)
(* Properties of fixed chunking (checked under SpecChunk).                 *)
(***************************************************************************)
\* C16: with 0 <= overlap < chunk_size, chunk i (from 0) starts at
\* i * (chunk_size - overlap), every chunk but the last has chunk_size
\* characters, consecutive chunks share exactly overlap characters, the last
\* chunk ends the text, and a 10-character text with chunk_size 4 and
\* overlap 1 gives [0,4) [3,7) [6,10).
C16_FixedWindows ==
    (0 <= overlap /\ overlap < chunk_size) =>
        /\ \A i \in 1..Len(yielded) :
              /\ yielded[i].start = (i - 1) * (chunk_size - overlap)
              /\ Len(yielded[i].text) = yielded[i].end - yielded[i].start
              /\ i < Len(yielded) =>
                    /\ Len(yielded[i].text) = chunk_size
                    /\ yielded[i].end - yielded[i + 1].start = overlap
                    /\ SubSeq(yielded[i].text, chunk_size - overlap + 1, chunk_size)
                          = SubSeq(yielded[i + 1].text, 1, overlap)
        /\ (cpc = "done" /\ text_n > 0) => yielded[Len(yielded)].end = text_n
        /\ (cpc = "done" /\ text_n = 10 /\ chunk_size = 4 /\ overlap = 1) =>
              [i \in 1..Len(yielded) |-> <<yielded[i].start, yielded[i].end>>]
                 = <<(<<0, 4>>), (<<3, 7>>), (<<6, 10>>)>>

\* C16 witness: the 10-character text cut with chunk_size 4 and overlap 1
C16_Witness ==
    /\ cpc = "done"
    /\ text_n = 10 /\ chunk_size = 4 /\ overlap = 1
    /\ Len(yielded) = 3

(***************************************************************************)
(* Properties of scanning (checked under SpecScan).                        *)
(***************************************************************************)
\* C17: every exception caught during a scan (a failing file in scan_folder,
\* a failing startup scan) has left an error event or log entry, whether or
\* not a logger was passed.
C17_EveryCaughtErrorSignalled ==
    \A i \in 1..Len(caught) : \E j \in 1..Len(signals) : signals[j] = caught[i]

Attempted == {attempts[i].name : i \in 1..Len(attempts)}

\* C18: a document whose parsing failed left the three corpora (vectors,
\* id index, dirty flag, persisted copy) and their indices as they were and
\* was not added to the ingested set; the failure does not end the scan:
\* every document before the loop position was loaded or skipped as already
\* ingested, and the scan returns only past the last document.
C18_ParseFailureIsolated ==
    /\ \A i \in 1..Len(attempts) :
          attempts[i].fate = "parse" =>
              /\ attempts[i].after = attempts[i].before
              /\ attempts[i].ingested_after = attempts[i].ingested_before
              /\ \A j \in 1..Len(ingested) : ingested[j] # attempts[i].name
                                              \/ \E k \in (i + 1)..Len(attempts) :
                                                    attempts[k].name = attempts[i].name
    /\ spc \in {"loop", "done"} =>
          \A j \in 1..Len(pdfs) :
              j < scan_i => \/ pdfs[j] \in Attempted
                            \/ ~force /\ pdfs[j] \in _ingested
    /\ spc = "done" => scan_i = Len(pdfs) + 1
    /\ spc = "raised" => attempts = <<>>

\* C18 witness: a scan over corpora that already hold a document, in which
\* the first document failed to parse and the second one was ingested
C18_Witness ==
    /\ spc = "done"
    /\ Len(attempts) = 2
    /\ attempts[1].fate = "parse"
    /\ attempts[1].before.stores["summary"].vectors # <<>>
    /\ attempts[2].fate = "ok"
    /\ attempts[2].after.stores # attempts[2].before.stores
    /\ attempts[1].name \notin _ingested

(***************************************************************************)
(* Properties of the answering loop's retrieval and of Decide (checked     *)
(* under SpecQA).                                                          *)
(***************************************************************************)
\* C19: with the MainStore backend the RetrieveDocs call of a round succeeds
\* and hands at most top_k_docs candidates to document selection; the
\* RetrieveChunks step then returns at most top_k_chunks and top_k_tables.
C19_MainStoreRetrievalSucceeds ==
    [][/\ (backend = "main" /\ pc = "retrieve_docs") =>
              /\ pc' = "select_docs"
              /\ error' = error
              /\ Len(docs') <= top_k_docs
       /\ (backend = "main" /\ pc = "retrieve_chunks") =>
              /\ pc' = "filter_chunks"
              /\ Len(retrieved_chunks') <= top_k_chunks
              /\ Len(retrieved_tables') <= top_k_tables]_vars

\* the follow-up query of the filter response, the current query when the
\* response has none
FollowUp ==
    IF "missing_info_query" \in filter_json.keys
    THEN filter_json.obj.missing_info_query
    ELSE current_query

\* C20: at Decide in round r the loop goes to FinalAnswer exactly when the
\* filter response said answerable or r = max_loops - 1; otherwise
\* current_query becomes the response's missing_info_query (unchanged when
\* absent) and round r + 1 starts at Reformulate with that query.
C20_DecideStep ==
    [][pc = "decide" =>
         /\ (pc' = "final_answer") <=>
                (Get(filter_json, "answerable", FALSE) \/ loop_idx = max_loops - 1)
         /\ pc' = "final_answer" => current_query' = current_query /\ loop_idx' = loop_idx
         /\ pc' # "final_answer" =>
                /\ pc' = "reformulate"
                /\ loop_idx' = loop_idx + 1
                /\ current_query' = FollowUp]_vars

\* C20 witness: round 1 is at Reformulate with a follow-up query that differs
\* from the user's question
C20_Witness ==
    /\ pc = "reformulate"
    /\ loop_idx = 1
    /\ current_query # user_query
    /\ current_query \in Queries
    /\ \E i \in 1..Len(steps) : steps[i].loop = 0 /\ steps[i].type = "filter_chunks"

(***************************************************************************)
(* Properties of the trace and of accumulated_chunks (checked under        *)
(* SpecQA).                                                                *)
(***************************************************************************)
RoundTypes ==
    <<"reformulate", "retrieve_docs", "select_docs", "retrieve_chunks", "filter_chunks">>

\* the steps of a run of R rounds: five per round, then final_answer
StepsOfRounds(R) ==
    [i \in 1..(5 * R + 1) |->
        IF i <= 5 * R
        THEN [loop |-> (i - 1) \div 5, type |-> RoundTypes[((i - 1) % 5) + 1]]
        ELSE [loop |-> R - 1, type |-> "final_answer"]]

\* C21: the steps of a completed run are those of its R executed rounds in
\* order, five per round tagged with the round, then one final_answer step:
\* 5R + 1 steps.
C21_TraceShape ==
    pc = "returned" => steps = StepsOfRounds(CountSteps("reformulate"))

\* the presented records whose id the filter response judged relevant
JudgedRelevant(presented, resp) ==
    {c \in RangeOf(presented) :
        "relevant_chunk_ids" \in resp.keys /\ c.id \in resp.obj.relevant_chunk_ids}

\* C22: accumulated_chunks never loses an id during a run; a FilterChunks
\* step leaves exactly the ids held before plus those of the presented
\* records judged relevant, each of these records is held afterwards, and
\* there is one entry per id (an id judged relevant again adds no entry).
C22_AccumulatedOnlyGrows ==
    [][/\ pc # "idle" =>
              /\ AccIds(accumulated_chunks) \subseteq AccIds(accumulated_chunks')
              /\ Len(accumulated_chunks) <= Len(accumulated_chunks')
       /\ (pc = "filter_chunks" /\ pc' = "decide") =>
              LET judged == JudgedRelevant(Limited(chunks, tables), filter_json')
              IN  /\ AccIds(accumulated_chunks') =
                        AccIds(accumulated_chunks) \cup {c.id : c \in judged}
                  /\ judged \subseteq RangeOf(accumulated_chunks')
                  /\ Len(accumulated_chunks') = Cardinality(AccIds(accumulated_chunks'))
                  /\ error' = error]_vars

\* C22 witness: the second round's filter judged presented records relevant
\* while accumulated_chunks also holds ids that only round 0 merged
C22_Witness ==
    /\ pc = "decide"
    /\ loop_idx = 1
    /\ JudgedRelevant(Limited(chunks, tables), filter_json) # {}
    /\ Len(accumulated_chunks) > Cardinality(JudgedRelevant(Limited(chunks, tables), filter_json))
    /\ CountSteps("filter_chunks") = 2

(***************************************************************************)
(* Further properties of one store (checked under SpecStore).              *)
(***************************************************************************)
\* C23: after any sequence of add, delete_by_file, flush and construction
\* from the directory, the stored ids are pairwise distinct and the id index
\* holds exactly the stored ids, each with the position of its record.
C23_IdsUniqueAndIndexed ==
    /\ \A i \in 1..Len(vectors) : \A j \in 1..Len(vectors) :
          vectors[i].id = vectors[j].id => i = j
    /\ DOMAIN id_index = {vectors[i].id : i \in 1..Len(vectors)}
    /\ \A id \in DOMAIN id_index :
          /\ id_index[id] \in 0..(Len(vectors) - 1)
          /\ vectors[id_index[id] + 1].id = id

\* C23 witness: a delete that removed the records of one file and kept
\* another record, whose position is indexed anew
C23_Witness ==
    /\ last_op.op = "delete_by_file"
    /\ last_op.pre.ids = {"r1", "r2", "r3"}
    /\ Len(vectors) = 1
    /\ vectors[1].id = "r2"
    /\ id_index["r2"] = 0

\* positions of the records that do not belong to the file
OtherFiles(vs, filename) ==
    {i \in 1..Len(vs) : vs[i].metadata.source_file # filename}

\* C24: delete_by_file(filename) leaves no record of that file and keeps
\* every other record, unchanged and in the same relative order; when it
\* returns the directory describes exactly the kept records and the store is
\* not dirty.
C24_DeleteByFileExact ==
    [][last_op'.op = "delete_by_file" =>
         LET I == OtherFiles(vectors, last_op'.filename)
         IN  /\ Len(vectors') = Cardinality(I)
             /\ \A k \in 1..Len(vectors') : vectors'[k] = vectors[NthOf(I, k)]
             /\ \A k \in 1..Len(vectors') :
                   vectors'[k].metadata.source_file # last_op'.filename
             /\ disk'.exists
             /\ DiskRecords(disk') = vectors'
             /\ ~dirty'
             /\ raised' = "none"
    ]_vars

\* C24 witness: of three stored records the one of b.pdf was deleted and the
\* two of a.pdf were kept
C24_Witness ==
    /\ last_op.op = "delete_by_file"
    /\ last_op.filename = "b.pdf"
    /\ last_op.pre.ids = {"r1", "r2", "r3"}
    /\ Len(vectors) = 2
    /\ DiskRecords(disk) = vectors

(***************************************************************************)
(* Properties of MainStore's indices (checked under SpecMain).             *)
(***************************************************************************)
\* C25: after every completed load_pdf, load_pdf_streaming and delete_file
\* each of the three indices holds the store's current record list and a
\* lexical structure built from exactly those records' texts.
C25_IndicesRebuilt ==
    main_op.completed =>
        \A k \in StoreNames :
            /\ scan_records[k].list = scan_stores[k].vectors
            /\ scan_bm25[k].built = (CorpusOf(scan_stores[k].vectors) # <<>>)
            /\ scan_bm25[k].corpus = CorpusOf(scan_stores[k].vectors)
            /\ scan_bm25[k].built => scan_bm25[k].of = scan_stores[k].vectors

\* C25 witness: a delete_file that removed one document's records from
\* corpora that keep another document's
C25_Witness ==
    /\ main_op.op = "delete_file"
    /\ main_op.filename = "a.pdf"
    /\ Len(scan_stores["summary"].vectors) = 1
    /\ Len(scan_stores["chunk"].vectors) = 1
    /\ scan_stores["table"].vectors = <<>>
    /\ scan_bm25["chunk"].built

(***************************************************************************)
(* Properties of score fusion and normalisation (checked under SpecHybrid).*)
(***************************************************************************)
PosOf(recs, r) == CHOOSE i \in 1..Len(recs) : recs[i] = r
\* the two score vectors of the last hybrid_search
LastLexical == lexical_scores(idx_records, bm25, last_search.raw)
LastDense == dense_scores(idx_records, last_search.query_vec)

\* C26: every result of hybrid_search carries alpha * dense_i +
\* (1 - alpha) * lexical_i of its record when the lexical score vector is
\* non-empty and has one score per record, and dense_i alone otherwise
\* (lexical disabled, or fewer lexical scores than records); nothing is raised.
C26_FusedScore ==
    (last_search.op = "hybrid_search" /\ idx_records # <<>>) =>
        /\ raised = "none"
        /\ \A k \in 1..Len(hits) :
              LET i == PosOf(idx_records, hits[k].rec)
              IN  IF Len(LastLexical) > 0 /\ Len(LastLexical) = Len(idx_records)
                  THEN hits[k].score =
                          (last_search.alpha * LastDense[i]
                             + (Scale - last_search.alpha) * LastLexical[i]) \div Scale
                  ELSE hits[k].score = LastDense[i]

\* C26 witness: a search with alpha one half over two records that both have
\* lexical scores returned a result whose score differs from its dense score
C26_Witness ==
    /\ last_search.op = "hybrid_search"
    /\ last_search.alpha = Scale \div 2
    /\ Len(idx_records) = 2
    /\ Len(LastLexical) = 2
    /\ \E k \in 1..Len(hits) :
          hits[k].score # LastDense[PosOf(idx_records, hits[k].rec)]

AllEqual(sc) == \A i \in 1..Len(sc) : \A j \in 1..Len(sc) : sc[i] = sc[j]
InUnitInterval(sc) == \A i \in 1..Len(sc) : 0 <= sc[i] /\ sc[i] <= Scale

\* C27: the vectors lexical_scores and dense_scores return hold only values
\* in [0,1] (0..Scale in units of 1/Scale), for one-record corpora too, and
\* the lexical scores are all zero when the raw lexical scores are all equal.
C27_ScoresNormalised ==
    (last_search.op = "hybrid_search" /\ idx_records # <<>>) =>
        /\ InUnitInterval(LastLexical)
        /\ InUnitInterval(LastDense)
        /\ AllEqual(last_search.raw) => \A i \in 1..Len(LastLexical) : LastLexical[i] = 0

(***************************************************************************)
(* Further properties of a job's event stream (checked under SpecEvents).  *)
(***************************************************************************)
\* C28: after every call on a job's logger the buffer holds fewer events
\* than the flush count; the file followed by the buffer is what the job
\* emitted, in order, beginning with job_started; and once the last emitted
\* event is an error or job_finished the buffer is empty and the file holds
\* everything emitted.
C28_BufferBoundedAndFlushed ==
    jpc # "idle" =>
        /\ Len(logger.buffer) < event_buffer_flush_events
        /\ logger.file \o logger.buffer = emitted
        /\ emitted[1].event = "job_started"
        /\ emitted[Len(emitted)].event \in {"error", "job_finished"} =>
              /\ logger.buffer = <<>>
              /\ logger.file = emitted

\* C28 witness: a job that failed with two events buffered since the last
\* flush by count
C28_Witness ==
    /\ jpc = "failed"
    /\ Len(emitted) = event_buffer_flush_events + 3
    /\ logger.file = emitted
    /\ logger.buffer = <<>>

(***************************************************************************)
(* Termination of fixed chunking (checked under SpecChunk).                *)
(***************************************************************************)
\* C29: for every text, chunk_size >= 1 and overlap >= 0 the generator
\* terminates: start is below len(text) inside the loop and every pass that
\* stays in the loop moves it forward; and for a non-empty text the last
\* chunk yielded ends at len(text).
C29_FixedTerminates ==
    [][/\ (cpc = "loop" /\ cpc' = "loop") => (start < start' /\ start' < text_n)
       /\ (cpc' = "done" /\ text_n > 0) =>
             (yielded' # <<>> /\ yielded'[Len(yielded')].end = text_n)]_vars


(***************************************************************************)
(* Sentence and recursive chunking of one long sentence, and the size of   *)
(* recursive chunks (checked under SpecStrategy)                           *)
(***************************************************************************)
\* the text is one sentence longer than chunk_size
OneLongSentence ==
    /\ Len(_split_sentences(source_text)) = 1
    /\ Len(_split_sentences(source_text)[1]) > chunk_size

\* C30: when Chunker.chunk has returned, a text of a single sentence longer
\* than chunk_size is one chunk (the whole sentence) under the sentence
\* strategy and several chunks under the recursive strategy, and every
\* chunk of the recursive strategy is at most max_chunk_size long
C30_RecursiveBounded ==
    kpc = "done" =>
        /\ (strategy = "sentence" /\ OneLongSentence) =>
               produced = <<ChunkOf(source_text, 0, Len(source_text))>>
        /\ (strategy = "recursive" /\ OneLongSentence) => Len(produced) > 1
        /\ strategy = "recursive" =>
               \A j \in DOMAIN produced : Len(produced[j].text) <= max_chunk_size

(***************************************************************************)
(* Offsets of sentence and recursive chunks (checked under SpecStrategy)   *)
(***************************************************************************)
\* text[start:end] == chunk.text, with both offsets inside the text
Locates(c) ==
    /\ 0 <= c.start /\ c.start <= c.end /\ c.end <= Len(source_text)
    /\ SubSeq(source_text, c.start + 1, c.end) = c.text

\* C31: every chunk produced by the sentence or recursive strategy has
\* 0 <= start <= end <= len(text) and text[start:end] == chunk.text, also
\* when new lines or several spaces separate the sentences of a group and
\* for recursive sub-chunks after the translation of their offsets
C31_OffsetsLocateText == \A j \in DOMAIN produced : Locates(produced[j])

(***************************************************************************)
(* Order of chunk offsets (checked under SpecStrategy; yielded holds the   *)
(* chunks of _fixed)                                                       *)
(***************************************************************************)
\* every start was found, and no chunk begins before the one before it ended
NoOverlap(cs) ==
    \A j \in DOMAIN cs :
        /\ cs[j].start >= 0
        /\ j > 1 => cs[j].start >= cs[j - 1].end

\* starts strictly increase, and consecutive chunks share at most overlap
\* characters
SlidesForward(cs) ==
    \A j \in DOMAIN cs :
        j > 1 => /\ cs[j - 1].start < cs[j].start
                 /\ cs[j - 1].end - cs[j].start <= overlap

\* C32: under sentence grouping every chunk's start is found (not -1) and
\* is at or after the end of the chunk before it, also for a sentence that
\* occurs several times; under fixed and recursive splitting the starts
\* strictly increase and consecutive chunks overlap by at most overlap
C32_OffsetsMonotonic ==
    /\ strategy = "sentence" => NoOverlap(produced)
    /\ strategy = "recursive" => SlidesForward(produced)
    /\ SlidesForward(yielded)

(***************************************************************************)
(* What accumulated_chunks can hold (checked under SpecQA)                 *)
(***************************************************************************)
\* the ids of the records presented to the filter model in this round: the
\* first 8 chunks and the first 4 tables that passed the document filter
PresentedIds ==
    {chunks[i].id : i \in {j \in 1..Len(chunks) : j <= 8}}
        \cup {tables[i].id : i \in {j \in 1..Len(tables) : j <= 4}}

\* the ids the filter response names as relevant
ReturnedIds(resp) ==
    IF "relevant_chunk_ids" \in resp.keys THEN resp.obj.relevant_chunk_ids ELSE {}

\* C33: accumulated_chunks starts empty and only a filter_chunks step adds
\* to its keys, and only ids of records presented to the filter model in
\* that round; so at every point its keys are ids presented in some round so
\* far.  An id the model returns as relevant without having been presented
\* is kept in the step's raw response but is not added, and what FinalAnswer
\* is given holds no id that was not added this way.
C33_OnlyPresentedAccumulated ==
    [][/\ pc' = "reformulate" /\ loop_idx' = 0 => accumulated_chunks' = <<>>
       /\ (pc = "filter_chunks" /\ pc' = "decide") =>
              /\ AccIds(accumulated_chunks') \ AccIds(accumulated_chunks)
                    \subseteq PresentedIds
              /\ \A id \in ReturnedIds(filter_json') \ PresentedIds :
                    /\ id \in filter_json'.obj.relevant_chunk_ids
                    /\ id \in AccIds(accumulated_chunks') =>
                          id \in AccIds(accumulated_chunks)
       /\ ~(pc = "filter_chunks" /\ pc' = "decide") /\ pc \notin {"idle"} =>
              AccIds(accumulated_chunks') \subseteq AccIds(accumulated_chunks)]_vars

\* C33 witness: the filter model named relevant an id beyond the first 8
\* chunks and an id that was never retrieved, together with presented ids,
\* and only the presented ones are held
C33_Witness ==
    /\ pc = "decide"
    /\ ReturnedIds(filter_json) \ PresentedIds # {}
    /\ ReturnedIds(filter_json) \cap PresentedIds # {}
    /\ AccIds(accumulated_chunks) = ReturnedIds(filter_json) \cap PresentedIds
    /\ Len(chunks) > 8

(***************************************************************************)
(* A store that is not dirty and its directory (checked under              *)
(* SpecStoreRaising)                                                       *)
(***************************************************************************)
\* the (matrix, metadata) pair of the directory describes exactly vs; a
\* directory never written describes the empty list
Describes(d, vs) == IF d.exists THEN d = _persist(vs) ELSE vs = <<>>

\* a constructor that raised left no store object
StoreExists == ~(last_op.op = "construct" /\ raised # "none")

\* C34: whenever the store is not dirty, the persisted matrix and metadata
\* describe exactly the in-memory record list, after any sequence of add
\* (flushing or not), flush, delete_by_file and construction, an add whose
\* persist step raised included
C34_CleanMeansPersisted ==
    (StoreExists /\ ~dirty) => Describes(disk, vectors)

(***************************************************************************)
(* Alignment of lexical scores and records (checked under                  *)
(* SpecHybridRaising)                                                      *)
(***************************************************************************)
\* hybrid_search took the branch score = alpha * ds + (1 - alpha) * ls
FusedApplied ==
    /\ last_search.op = "hybrid_search"
    /\ idx_records # <<>>
    /\ bm25.built
    /\ Len(bm25.corpus) = Len(idx_records)

\* the indexed records mix records without tokens and records with tokens
MixedCorpus ==
    /\ \E i \in 1..Len(idx_records) : TokensOf(idx_records[i]) = <<>>
    /\ \E i \in 1..Len(idx_records) : TokensOf(idx_records[i]) # <<>>

\* C35: whenever hybrid_search applies the fused formula, the lexical score
\* at position i comes from the text of record i (entry i of the BM25 corpus
\* is the token list of record i); and when the indexed records mix records
\* without tokens and records with tokens, there are fewer lexical scores
\* than records and the result is the ranking by dense score alone
C35_LexicalAligned ==
    /\ FusedApplied =>
          \A i \in 1..Len(idx_records) : bm25.corpus[i] = TokensOf(idx_records[i])
    /\ (last_search.op = "hybrid_search" /\ MixedCorpus) =>
          /\ Len(bm25.corpus) < Len(idx_records)
          /\ hits = Ranked(idx_records,
                           dense_scores(idx_records, last_search.query_vec),
                           last_search.top_k)

(***************************************************************************)
(* What a poller of a question job finds (checked under SpecQA)            *)
(***************************************************************************)
\* the info events that are given trace_id: loop_start and trace_saved of
\* run_with_events, qa_loop_complete of ask_async
CarriesTraceId(e) ==
    e.event = "info" /\ e.message \in {"loop_start", "trace_saved", "qa_loop_complete"}

\* C36: whenever job_finished can be read in the stream of a question job,
\* an info event carrying the trace_id stands before it in the stream and
\* the trace file has been written
C36_FinishedMeansTraceReadable ==
    mode \in {"ask_async", "run_with_events"} =>
        \A j \in 1..Len(logger.file) :
            logger.file[j].event = "job_finished" =>
                /\ \E i \in 1..(j - 1) : CarriesTraceId(logger.file[i])
                /\ trace_file.exists
                /\ trace_file.steps = steps

\* C36 witness: the job of /question_async finished after a full round; its
\* stream holds qa_loop_complete and then job_finished
C36_Witness ==
    /\ mode = "ask_async"
    /\ pc = "returned"
    /\ Len(steps) > 5
    /\ \E j \in 1..Len(logger.file) :
          /\ logger.file[j].event = "job_finished"
          /\ logger.file[j - 1] = Evt("info", "qa_loop_complete")

(***************************************************************************)
(* The job of POST /upload_async (app/api/server.py): the endpoint makes   *)
(* the EventLogger and hands load_pdf_streaming to a background task.      *)
(* load_pdf_streaming (app/stores/main_store.py) is followed statement     *)
(* group by statement group, so that the events file and the stores can be *)
(* read while the job runs.  jpc is the job's position, main_op the file.  *)
(***************************************************************************)
\* what an upload job leaves alone
uploadRest == <<qaNoLogger, emitted, storeVars, raised, hybridVars, concVars, chunkVars,
                _ingested, caller, scan_logger, force, pdfs, scan_i, ingested,
                signals, caught, attempts, nscans, spc, groupVars>>

\* faulty variant: the task's except clause logs nothing
ingest_failed_silent(lg) == lg

\* except Exception as e: logger.error('ingest_failed', ...)
ingest_failed(lg) == LogError(lg, "ingest_failed")

\* the statements of the job that ran: they change the logger and the stores
Ingest(lg, T, next) ==
    /\ logger' = lg
    /\ Becomes(T)
    /\ jpc' = next
    /\ main_op' = MainOp("load_pdf_streaming", main_op.filename, next = "finished")
    /\ UNCHANGED uploadRest

\* upload_pdf_async: logger = EventLogger(job_id); background.add_task(task)
UploadAsync(name) ==
    /\ pc = "idle"
    /\ jpc \in {"idle", "finished", "failed"}
    /\ logger' = EventLogger
    /\ jpc' = "parse"
    /\ main_op' = MainOp("load_pdf_streaming", name, FALSE)
    /\ UNCHANGED <<scanCorpora, uploadRest>>

\* logger.info('parse_start'); parsed = self.pdf_loader.load(file_path);
\* logger.info('parse_complete')
IngestParse(ok) ==
    /\ jpc = "parse"
    /\ LET started == LogInfo(logger, "parse_start")
       IN  IF ok
           THEN Ingest(LogInfo(started, "parse_complete"), Corpora4, "summary")
           ELSE Ingest(ingest_failed(started), Corpora4, "failed")

\* logger.info('summary_start'); summarize and embed;
\* self.summary_store.add([...], flush=False); logger.info('summary_done')
IngestSummary(ok) ==
    /\ jpc = "summary"
    /\ LET started == LogInfo(logger, "summary_start")
       IN  IF ok
           THEN Ingest(LogInfo(started, "summary_done"),
                       AddNoFlush(Corpora4, "summary", SummaryRecords(main_op.filename)),
                       "chunks")
           ELSE Ingest(ingest_failed(started), Corpora4, "failed")

\* logger.info('chunk_embedding_start'); the batch is embedded and
\* logger.progress('chunks', ...); self.chunk_store.add(chunk_records,
\* flush=False); logger.info('chunk_embedding_done')
IngestChunks(ok) ==
    /\ jpc = "chunks"
    /\ LET started == LogInfo(logger, "chunk_embedding_start")
           records == RecordsOf(LoadPdf(main_op.filename).chunks, main_op.filename)
       IN  IF ok
           THEN Ingest(LogInfo(LogProgress(started, "chunks"), "chunk_embedding_done"),
                       AddNoFlush(Corpora4, "chunk", records), "tables")
           ELSE Ingest(ingest_failed(started), Corpora4, "failed")

\* if tables: logger.info('table_embedding_start'); the batch is embedded and
\* logger.progress('tables', ...); self.table_store.add(table_records,
\* flush=False); logger.info('table_embedding_done')
IngestTables(ok) ==
    /\ jpc = "tables"
    /\ LET started == LogInfo(logger, "table_embedding_start")
           items == LoadPdf(main_op.filename).tables
           records == RecordsOf(items, main_op.filename)
       IN  IF items = <<>>
           THEN ok /\ Ingest(logger, Corpora4, "flush")
           ELSE IF ok
                THEN Ingest(LogInfo(LogProgress(started, "tables"), "table_embedding_done"),
                            AddNoFlush(Corpora4, "table", records), "flush")
                ELSE Ingest(ingest_failed(started), Corpora4, "failed")

\* self.summary_store.flush(); self.chunk_store.flush();
\* self.table_store.flush(); logger.info('stores_flushed')
IngestFlush ==
    /\ jpc = "flush"
    /\ Ingest(LogInfo(logger, "stores_flushed"), FlushAll(Corpora4), "rebuild")

\* self._rebuild_hybrids(); logger.info('hybrids_rebuilt')
IngestRebuild ==
    /\ jpc = "rebuild"
    /\ Ingest(LogInfo(logger, "hybrids_rebuilt"), _rebuild_hybrids(Corpora4), "done")

\* logger.done(**meta); return meta
IngestDone ==
    /\ jpc = "done"
    /\ Ingest(LogDone(logger), Corpora4, "finished")

NextUpload ==
    \/ \E name \in Names : UploadAsync(name)
    \/ \E ok \in BOOLEAN : IngestParse(ok)
    \/ \E ok \in BOOLEAN : IngestSummary(ok)
    \/ \E ok \in BOOLEAN : IngestChunks(ok)
    \/ \E ok \in BOOLEAN : IngestTables(ok)
    \/ IngestFlush
    \/ IngestRebuild
    \/ IngestDone

SpecUpload == InitScan /\ [][NextUpload]_vars


\* the records the job adds to store k for this file
NewRecords(k, name) ==
    CASE k = "summary" -> SummaryRecords(name)
      [] k = "chunk"   -> RecordsOf(LoadPdf(name).chunks, name)
      [] OTHER         -> RecordsOf(LoadPdf(name).tables, name)

InMemory(k, records) ==
    \A i \in DOMAIN records :
        \E j \in DOMAIN scan_stores[k].vectors : scan_stores[k].vectors[j] = records[i]

OnDisk(k, records) ==
    \A i \in DOMAIN records :
        \E j \in DOMAIN scan_disk[k] : scan_disk[k][j] = records[i]

\* the info event that follows store k's add(..., flush=False)
AddedEvent(k) ==
    CASE k = "summary" -> Evt("info", "summary_done")
      [] k = "chunk"   -> Evt("info", "chunk_embedding_done")
      [] OTHER         -> Evt("info", "table_embedding_done")

WasEmitted(evt) == \E i \in DOMAIN Emitted(logger) : Emitted(logger)[i] = evt

\* stores_flushed, hybrids_rebuilt and job_finished are emitted in that order
FlushOrder ==
    LET es == Emitted(logger)
    IN  /\ \A j \in DOMAIN es :
              es[j].event = "job_finished" =>
                  \E h \in 1..(j - 1) : es[h] = Evt("info", "hybrids_rebuilt")
        /\ \A h \in DOMAIN es :
              es[h] = Evt("info", "hybrids_rebuilt") =>
                  \E f \in 1..(h - 1) : es[f] = Evt("info", "stores_flushed")
        /\ \A f \in DOMAIN es :
              es[f] = Evt("info", "stores_flushed") =>
                  \A k \in StoreNames :
                      NewRecords(k, main_op.filename) # <<>> =>
                          \E a \in 1..(f - 1) : es[a] = AddedEvent(k)

\* when job_finished is emitted no store is dirty, the new records are
\* durable and every index was built on the store's records
FinishedClean ==
    jpc = "finished" =>
        \A k \in StoreNames :
            /\ ~scan_dirty[k]
            /\ scan_disk[k] = scan_stores[k].vectors
            /\ InMemory(k, NewRecords(k, main_op.filename))
            /\ OnDisk(k, NewRecords(k, main_op.filename))
            /\ scan_bm25[k] = BuildBM25(scan_stores[k].vectors)
            /\ scan_records[k].list = scan_stores[k].vectors

\* a job that failed before the flush: what it added is in memory, in a
\* store that is marked dirty
FailedKeepsMemory ==
    jpc = "failed" =>
        \A k \in StoreNames :
            WasEmitted(AddedEvent(k)) =>
                /\ InMemory(k, NewRecords(k, main_op.filename))
                /\ scan_dirty[k]

\* the files change in one step of a job only, the one that flushes the
\* stores; every step before it leaves them as they were
FlushedOnce ==
    scan_disk' # scan_disk => (jpc = "flush" /\ jpc' = "rebuild")

\* C38: load_pdf_streaming adds the summary, chunk and table records with
\* flush=False and flushes the stores once, after all of them were added;
\* stores_flushed, hybrids_rebuilt and job_finished are emitted in that
\* order; when job_finished is emitted no store is dirty and every index
\* reflects the new records; the records of a job that failed before the
\* flush are in memory and were not written.
C38_FlushOncePerIngestion ==
    /\ [](FlushOrder /\ FinishedClean /\ FailedKeepsMemory)
    /\ [][FlushedOnce]_vars

C38_Witness ==
    /\ jpc = "finished"
    /\ main_op = MainOp("load_pdf_streaming", "a.pdf", TRUE)
    /\ Len(scan_stores["summary"].vectors) = 2
    /\ Len(scan_disk["table"]) = 1
    /\ logger.buffer = <<>>


(***************************************************************************)
(* The two background jobs of app/api/server.py side by side: the task of  *)
(* /question_async around QALoop.run and the task of /upload_async around  *)
(* load_pdf_streaming.  A behaviour follows question jobs or upload jobs;  *)
(* a task that was started is scheduled until it ends.                     *)
(***************************************************************************)
\* ask_async: logger = EventLogger(job_id); threading.Thread(target=task).start()
AskAsync(q) ==
    /\ jpc = "idle"
    /\ Start("ask_async", q)

NextJobs ==
    \/ \E q \in Queries : AskAsync(q)
    \/ \E reply \in Replies(ReformObjs, ReformEmpty) : Reformulate(reply)
    \/ RetrieveDocs
    \/ \E reply \in Replies(SelectObjs, SelectEmpty) : SelectDocs(reply)
    \/ RetrieveChunks
    \/ \E reply \in Replies(FilterObjs, FilterEmpty) : FilterChunks(reply)
    \/ Decide
    \/ \E reply \in Replies(FinalObjs, FinalEmpty) : FinalAnswer(reply)
    \/ PersistTrace
    \/ LogSaved
    \/ LogFinished
    \/ NextUpload

SpecJobs == InitQA /\ [][NextJobs]_vars /\ WF_vars(NextJobs)

Terminal(e) == e.event \in {"job_finished", "error"}
\* the terminal events a reader of the events file finds
Terminals(lg) == Cardinality({i \in DOMAIN lg.file : Terminal(lg.file[i])})
InFile(lg, type) == \E i \in DOMAIN lg.file : lg.file[i].event = type

JobRunning ==
    \/ pc \notin {"idle", "returned", "aborted"}
    \/ jpc \in {"parse", "summary", "chunks", "tables", "flush", "rebuild", "done"}
\* the task's try block ran to its end
JobSucceeded == pc = "returned" \/ jpc = "finished"
\* the task's except clause ran
JobFailed == pc = "aborted" \/ jpc = "failed"

OneTerminalEvent ==
    /\ Terminals(logger) <= 1
    /\ JobRunning => Terminals(logger) = 0
    /\ JobSucceeded => (InFile(logger, "job_finished") /\ ~InFile(logger, "error"))
    /\ JobFailed => (InFile(logger, "error") /\ ~InFile(logger, "job_finished"))

\* C37: every background job (upload_async, question_async) eventually has
\* exactly one terminal event in its events file: job_finished if the work
\* succeeded, error if it raised; a failed job never has job_finished and a
\* succeeded job never has error.
C37_OneTerminalEventPerJob ==
    /\ [](OneTerminalEvent)
    /\ [](JobRunning => <>((JobSucceeded \/ JobFailed) /\ Terminals(logger) = 1))

C37_Witness ==
    /\ jpc = "failed"
    /\ main_op.filename = "a.pdf"
    /\ WasEmitted(Evt("info", "chunk_embedding_done"))
    /\ logger.buffer = <<>>
    /\ logger.file[Len(logger.file)] = Evt("error", "ingest_failed")

====
